---- MODULE Spec2Model ----
(***************************************************************************)
(* Model of src/update-dashboard.js (halthelobster/hal-ops-dashboard).     *)
(*                                                                         *)
(* Documents.  index.html is modelled as a sequence of atoms.  An atom is  *)
(* one markup tag (named by what the anchor patterns can see of it: its    *)
(* class / id, with style attributes elided), one static template text,    *)
(* one maximal run of digits, or one character of a text that comes from   *)
(* source data.  Whitespace between tags is elided, so every \s* of an     *)
(* anchor pattern is the empty pattern; emoji of card titles are elided    *)
(* from the atom names.                                                    *)
(*                                                                         *)
(* Texts from source data are sequences of one-character strings, so that  *)
(* escapeHtml and the $-patterns of String.prototype.replace act on them   *)
(* as they do in the program.                                              *)
(***************************************************************************)
EXTENDS Integers, Sequences, FiniteSets, TLC

VARIABLES
    files,      \* the three persisted files: html (index.html), state (state.json), activity (activity-log.json)
    inp,        \* the adapters' outputs (held constant over a behaviour)
    clock,      \* the clock, read by new Date()
    dryRun,     \* DRY_RUN
    pc,         \* position of main()
    mem,        \* the object updateStateFile returned to main (the in-memory merged snapshot)
    buf,        \* the html buffer of updateDashboardHTML at its end
    err,        \* the exception that ended main(), "none" if none did
    start,      \* history: the files as they were when the current run started
    prev,       \* history: the document the last patcher pass read
    dryResult,  \* history: what the last completed dry run started from and computed
    writes,     \* history: the writeFileSync calls of the current run, in order
    passes,     \* history: number of runs / patcher passes so far
    appended,   \* history: every entry logActivity persisted, newest first
    inserted,   \* history: per patcher pass, the blocks its insert branches put into the buffer
    arg,        \* the argument of a call of one of the parsing functions
    res         \* what that call returned

vars == <<files, inp, clock, dryRun, pc, mem, buf, err, start, prev, dryResult, writes, passes,
          appended, inserted, arg, res>>

----------------------------------------------------------------------------
(* Bounds of the model *)

MaxPasses == 3          \* patcher passes over one document (SpecPatch)
MaxRuns == 2            \* runs of main() in one behaviour (Spec)
MaxAppends == 52        \* logActivity calls in one behaviour (SpecLog)
MaxTicks == 1           \* clock ticks between the runs of one behaviour (Spec)
MaxFails == 1           \* failed writes of the log in one behaviour (SpecLog)
MaxRocks == 3           \* rows of the rocks table (SpecParse)
MaxRows == 3            \* rows of the scheduler's report (SpecParse)
MaxAgeLen == 3          \* characters of an arbitrary age text (SpecParse)
MaxCrons == 13          \* jobs of the longest report given to the patcher
MaxLines == 4           \* lines of life-vto.md (SpecParse)
MaxVo2Len == 2          \* characters of the VO2 fields of the Oura answer (SpecParse)
MaxSessions == 2        \* sessions in the answer of the session list (SpecParse)

MAX_ACTIVITY_ITEMS == 50

----------------------------------------------------------------------------
(* Generic helpers *)

Min(a, b) == IF a < b THEN a ELSE b

\* Array.prototype.slice(0, n)
slice0(s, n) == SubSeq(s, 1, Min(n, Len(s)))

RECURSIVE Concat(_, _, _)
\* ss[lo] \o ... \o ss[hi]
Concat(ss, lo, hi) ==
    IF lo > hi THEN <<>>
    ELSE IF lo = hi THEN ss[lo]
    ELSE LET mid == (lo + hi) \div 2 IN Concat(ss, lo, mid) \o Concat(ss, mid + 1, hi)

\* Array.prototype.join of rendered fragments (the separator is whitespace)
Flatten(ss) == Concat(ss, 1, Len(ss))

\* number of indices of d that hold atom a
Count(d, a) == Cardinality({i \in 1..Len(d) : d[i] = a})

\* String.prototype.includes for a needle that is one atom
includes(d, a) == \E i \in 1..Len(d) : d[i] = a

\* property write obj.k = v on a JSON object
Put(obj, k, v) == [x \in (DOMAIN obj) \cup {k} |-> IF x = k THEN v ELSE obj[x]]

Has(obj, k) == k \in DOMAIN obj

EmptyObj == [x \in {} |-> 0]

\* a || b on texts (the empty text is falsy; a missing field is the empty text)
Or(a, b) == IF a # <<>> THEN a ELSE b

----------------------------------------------------------------------------
(* escapeHtml *)

AMP == <<"&", "a", "m", "p", ";">>
LT == <<"&", "l", "t", ";">>
GT == <<"&", "g", "t", ";">>
QUOT == <<"&", "q", "u", "o", "t", ";">>

\* text.replace(/c/g, e)
replaceAll(t, c, e) == Flatten([i \in 1..Len(t) |-> IF t[i] = c THEN e ELSE <<t[i]>>])

\* a variant of escapeHtml that leaves the double quote as it is
escapeHtmlNoQuote(text) ==
    IF text = <<>> THEN <<>>
    ELSE replaceAll(replaceAll(replaceAll(text, "&", AMP), "<", LT), ">", GT)

escapeHtml(text) ==
    IF text = <<>> THEN <<>>
    ELSE replaceAll(replaceAll(replaceAll(replaceAll(text, "&", AMP), "<", LT), ">", GT), "\"", QUOT)

----------------------------------------------------------------------------
(* Regular expressions over atoms, and String.prototype.replace            *)

\* one atom out of S
One(S) == [k |-> "one", s |-> S]
\* [^...]+ : a maximal, non-empty run of atoms outside S
Run(S) == [k |-> "run", s |-> S]
\* [\s\S]*?
Lazy == [k |-> "lazy", s |-> {}]
\* ( or ) of a capture group
Mark == [k |-> "mark", s |-> {}]
\* (a1|a2): one of two literal atom sequences, the first tried first
Alt(a1, a2) == [k |-> "alt", s |-> {}, a |-> <<a1, a2>>]
\* a literal atom sequence
L(s) == [j \in 1..Len(s) |-> One({s[j]})]

Fail == [ok |-> FALSE, s |-> 0, e |-> 0, g |-> <<>>]

IsAt(d, i, a) == /\ i + Len(a) - 1 <= Len(d)
                 /\ \A j \in 1..Len(a) : d[i + j - 1] = a[j]

\* the least element of a set of positions, 0 for the empty set
Least(S) == IF S = {} THEN 0 ELSE CHOOSE x \in S : \A y \in S : x <= y
Greatest(S) == IF S = {} THEN 0 ELSE CHOOSE x \in S : \A y \in S : x >= y

\* the positions of atom a in d, in order
Places(d, a) == SelectSeq([i \in 1..Len(d) |-> i], LAMBDA i : d[i] = a)

\* the first stop j of a run in a text of n atoms (j = 0: the run reaches the end)
RunStop(j, n) == IF j = 0 THEN n + 1 ELSE j

\* the end of the maximal run of atoms outside S that starts at i
RunEnd(d, i, S) == RunStop(Least({j \in i..Len(d) : d[j] \in S}), Len(d))

RECURSIVE Match(_, _, _, _, _)
RECURSIVE MatchRest(_, _, _, _, _)

\* go on behind element k at position j, if there is such a position
MatchRest(d, p, j, k, g) == IF j = 0 THEN Fail ELSE Match(d, p, j, k + 1, g)

\* the first of two alternatives' results that matched
FirstOk(r1, r2) == IF r1.ok THEN r1 ELSE r2

\* alternative a of an alt element at position i, and the rest of the pattern
MatchAlt(d, p, i, k, g, a) ==
    IF IsAt(d, i, a) THEN Match(d, p, i + Len(a), k + 1, g) ELSE Fail

\* match elements k.. of pattern p at position i of d; g collects the group marks
Match(d, p, i, k, g) ==
    IF k > Len(p) THEN [ok |-> TRUE, s |-> 0, e |-> i, g |-> g]
    ELSE CASE p[k].k = "one" ->
                MatchRest(d, p, IF i <= Len(d) /\ d[i] \in p[k].s THEN i + 1 ELSE 0, k, g)
           [] p[k].k = "run" ->
                MatchRest(d, p, IF i <= Len(d) /\ d[i] \notin p[k].s THEN RunEnd(d, i, p[k].s) ELSE 0,
                          k, g)
           [] p[k].k = "lazy" ->
                \* the shortest extension for which the rest of the pattern matches
                MatchRest(d, p, Least({j \in i..(Len(d) + 1) : Match(d, p, j, k + 1, g).ok}), k, g)
           [] p[k].k = "mark" -> Match(d, p, i, k + 1, Append(g, i))
           [] p[k].k = "alt" ->
                FirstOk(MatchAlt(d, p, i, k, g, p[k].a[1]), MatchAlt(d, p, i, k, g, p[k].a[2]))

\* the match of p that starts at position i of d (i = 0: there is none)
MatchAt(d, p, i) == IF i = 0 THEN Fail ELSE [Match(d, p, i, 1, <<>>) EXCEPT !.s = i]

\* the leftmost match of p in d
Search(d, p) == MatchAt(d, p, Least({i \in 1..Len(d) : Match(d, p, i, 1, <<>>).ok}))

GroupDigits == {"1", "2", "3", "4", "5", "6", "7", "8", "9"}
DigitValue(a) == CHOOSE n \in 1..9 : ToString(n) = a
BACKTICK == "BACKTICK"

\* the number of "$" atoms that stand directly before index i of r
DollarsBefore(r, i) == Cardinality({j \in 1..(i - 1) : \A x \in j..(i - 1) : r[x] = "$"})

\* index i of r starts a $-pattern: $$, $&, $BACKTICK, $' or $n for a group n of the match
StartsPattern(r, i, m) ==
    /\ i >= 1 /\ i < Len(r)
    /\ r[i] = "$"
    /\ DollarsBefore(r, i) % 2 = 0
    /\ \/ r[i + 1] \in {"$", "&", BACKTICK, "'"}
       \/ r[i + 1] \in GroupDigits /\ 2 * DigitValue(r[i + 1]) <= Len(m.g)

\* what the $-pattern with the atom n behind the "$" stands for
Expansion(n, d, m) ==
    CASE n = "$" -> <<"$">>
      [] n = "&" -> SubSeq(d, m.s, m.e - 1)
      [] n = BACKTICK -> SubSeq(d, 1, m.s - 1)
      [] n = "'" -> SubSeq(d, m.e, Len(d))
      [] OTHER -> SubSeq(d, m.g[2 * DigitValue(n) - 1], m.g[2 * DigitValue(n)] - 1)

\* what the atom at index i of the replacement string r contributes
Substituted(r, i, d, m) ==
    IF StartsPattern(r, i, m) THEN Expansion(r[i + 1], d, m)
    ELSE IF StartsPattern(r, i - 1, m) THEN <<>>
    ELSE <<r[i]>>

\* the replacement string r with its $-patterns expanded for match m in d
GetSubstitution(r, d, m) == Flatten([i \in 1..Len(r) |-> Substituted(r, i, d, m)])

\* d with the match m replaced by the expansion of r
Replaced(d, r, m) ==
    IF Len(d) = 0 \/ ~m.ok THEN d
    ELSE SubSeq(d, 1, m.s - 1) \o GetSubstitution(r, d, m) \o SubSeq(d, m.e, Len(d))

\* html.replace(p, r) for a pattern without the g flag: the first match only
replace(d, p, r) == Replaced(d, r, Search(d, p))

----------------------------------------------------------------------------
(* Atoms of the document *)

DIVC == "</div>"
SPANC == "</span>"
CARD == "<div class=card>"
CARDWIDE == "<div class=card style=grid-column>"
HEADER == "<div class=card-header>"
CTITLE == "<div class=card-title>"
NJCARD == "<div class=card needs-jordan>"
APPROVAL == "<div class=card id=approval-queue>"
QACARD == "<div class=card id=quick-actions>"
SYSCARD == "<div class=card id=system-status>"
ROCKSCARD == "<div class=card id=q1-rocks>"
SCORECARD == "<div class=card id=weekly-scorecard>"
BADGE == "<span class=badge>"
HLABEL == "<div class=health-label>"
HITEM == "<div class=health-item>"
HVSTYLE == "<div class=health-value style>"
CRONGRID == "<div class=cron-grid>"
LIFEOSVIEW == "<!-- LIFE OS VIEW -->"
LIFEOSEND == "<!-- LIFE OS VIEW end -->"
GOALSEND == "<!-- goals-grid end -->"
FOOTER == "<footer>"
GPV == "<span class=goal-progress-value>"
PCTSPAN == "%</span>"
FILLEND == "%></div>"
WORKITEM == "<div class=work-item>"
WORKINFO == "<div class=work-info>"
WORKTITLE == "<div class=work-title>"
WORKPROJECT == "<div class=work-project>"
MUTED == "<div style=muted>"

\* <div class="health-value[^"]*"> : the tag with each class suffix the documents hold
HV == [c \in {"none", "", "green", "orange", "red"} |->
        CASE c = "none" -> "<div class=health-value>"
          [] c = "" -> "<div class=health-value >"
          [] c = "green" -> "<div class=health-value green>"
          [] c = "orange" -> "<div class=health-value orange>"
          [] c = "red" -> "<div class=health-value red>"]
HVAny == {HV[c] : c \in DOMAIN HV}
\* <div class="health-value \w+"> : a class suffix of at least one word character
HVWord == {HV["green"], HV["orange"], HV["red"]}

HVRES == [c \in {"none", "green", "orange", "red"} |->
        CASE c = "none" -> "<div class=health-value id=resilience-value>"
          [] c = "green" -> "<div class=health-value green id=resilience-value>"
          [] c = "orange" -> "<div class=health-value orange id=resilience-value>"
          [] c = "red" -> "<div class=health-value red id=resilience-value>"]
HVSTRESS == [c \in {"none", "", "green", "orange", "red"} |->
        CASE c = "none" -> "<div class=health-value id=stress-value>"
          [] c = "" -> "<div class=health-value  id=stress-value>"
          [] c = "green" -> "<div class=health-value green id=stress-value>"
          [] c = "orange" -> "<div class=health-value orange id=stress-value>"
          [] c = "red" -> "<div class=health-value red id=stress-value>"]
HVVO2 == "<div class=health-value id=vo2-value>"

\* <span class="badge[^"]*">
BADGEC == [c \in {"", "green", "orange", "blue"} |->
        CASE c = "" -> "<span class=badge >"
          [] c = "green" -> "<span class=badge green>"
          [] c = "orange" -> "<span class=badge orange>"
          [] c = "blue" -> "<span class=badge blue>"]
BadgeAny == {BADGE} \cup {BADGEC[c] : c \in DOMAIN BADGEC}

FILL == [g \in {"income", "body", "love", "freedom", "joy"} |->
        CASE g = "income" -> "<div class=goal-progress-fill income style=width:"
          [] g = "body" -> "<div class=goal-progress-fill body style=width:"
          [] g = "love" -> "<div class=goal-progress-fill love style=width:"
          [] g = "freedom" -> "<div class=goal-progress-fill freedom style=width:"
          [] g = "joy" -> "<div class=goal-progress-fill joy style=width:"]

MaxNum == 120           \* the largest number a document holds as one digit run
\* \d+ : the atoms that are digit runs
Digits == {ToString(n) : n \in 0..MaxNum}

\* the atoms that begin with "<" ([^<] excludes them)
TagAtoms ==
    {"<", "<!-- LIFE OS VIEW -->", "<!-- LIFE OS VIEW end -->", "<!-- goals-grid end -->",
     "</div>", "</h4>", "</p>", "</span>", "<button>Check Sessions</button>",
     "<button>Refresh Dashboard</button>", "<button>Sync Things</button>",
     "<button>View Cron Logs</button>", "<div class=approval-list>",
     "<div class=card id=approval-queue>", "<div class=card id=q1-rocks>",
     "<div class=card id=quick-actions>", "<div class=card id=system-status>",
     "<div class=card id=weekly-scorecard>", "<div class=card needs-jordan>",
     "<div class=card style=grid-column>", "<div class=card-header>",
     "<div class=card-title style>", "<div class=card-title>", "<div class=card>",
     "<div class=cron-grid>", "<div class=cron-health error>",
     "<div class=cron-health ok style=orange>", "<div class=cron-health ok>",
     "<div class=cron-item title=ERROR>", "<div class=cron-item title=Last>",
     "<div class=cron-item title=Never-run style=opacity>", "<div class=cron-item>",
     "<div class=goal-progress-bar>", "<div class=goal-progress-container>",
     "<div class=goal-progress-fill body style=width:",
     "<div class=goal-progress-fill freedom style=width:",
     "<div class=goal-progress-fill income style=width:",
     "<div class=goal-progress-fill joy style=width:",
     "<div class=goal-progress-fill love style=width:",
     "<div class=goal-progress-fill style=width:", "<div class=goal-progress-header>",
     "<div class=goals-grid>", "<div class=grid>", "<div class=health-item>",
     "<div class=health-label>", "<div class=health-value  id=stress-value>",
     "<div class=health-value >", "<div class=health-value green id=resilience-value>",
     "<div class=health-value green id=stress-value>", "<div class=health-value green style>",
     "<div class=health-value green>", "<div class=health-value id=resilience-value>",
     "<div class=health-value id=stress-value>", "<div class=health-value id=vo2-value>",
     "<div class=health-value orange id=resilience-value>",
     "<div class=health-value orange id=stress-value>",
     "<div class=health-value orange style>", "<div class=health-value orange>",
     "<div class=health-value red id=resilience-value>",
     "<div class=health-value red id=stress-value>", "<div class=health-value red style>",
     "<div class=health-value red>", "<div class=health-value style>",
     "<div class=health-value>", "<div class=milestone-check >",
     "<div class=milestone-check done>", "<div class=milestone-info>",
     "<div class=milestone-item>", "<div class=milestone-name >",
     "<div class=milestone-name done>", "<div class=need-item>", "<div class=need-meta>",
     "<div class=work-info>", "<div class=work-item>", "<div class=work-progress-bar>",
     "<div class=work-progress>", "<div class=work-project>",
     "<div class=work-status running>", "<div class=work-status style=blue>",
     "<div class=work-status waiting>", "<div class=work-title>", "<div id=dashboard-view>",
     "<div id=lifeos-view>", "<div style=flex>", "<div style=grid>", "<div style=muted>",
     "<div style=row>", "<div>", "<footer>", "<h4>", "<p>", "<span class=badge >",
     "<span class=badge blue>", "<span class=badge green>", "<span class=badge orange>",
     "<span class=badge>", "<span class=cron-name>", "<span class=cron-schedule>",
     "<span class=goal-progress-label>", "<span class=goal-progress-value>",
     "<span class=trend>", "<span class=updated>", "<span style=green>", "<span style=muted>",
     "<span>"}

----------------------------------------------------------------------------
(* Rendering: the build* functions.  Each returns the atoms of its template *)

NumOf(a) == CHOOSE n \in 0..MaxNum : ToString(n) = a

\* the first i with s[i] a digit run, s[i+1] white space and s[i+2] a digit run: /(\d+)\s+(\d+)/
CronExprAt(s) == {i \in 1..(Len(s) - 2) : s[i] \in Digits /\ s[i + 1] = " " /\ s[i + 2] \in Digits}

formatSchedule(schedule) ==
    IF schedule = <<>> THEN <<"-">>
    ELSE IF Head(schedule) = "in " THEN schedule
    ELSE IF CronExprAt(schedule) # {}
    THEN LET i == CHOOSE j \in CronExprAt(schedule) : \A k \in CronExprAt(schedule) : j <= k
             h == NumOf(schedule[i + 2])
             ampm == IF h >= 12 THEN "pm" ELSE "am"
             h12 == IF h > 12 THEN h - 12 ELSE (IF h = 0 THEN 12 ELSE h)
         IN <<ToString(h12), ampm>>
    ELSE slice0(schedule, 8)

\* c.next || c.schedule
NextOrSchedule(c) == IF c.next # <<>> THEN c.next ELSE c.schedule

buildCronGrid(crons) ==
    Flatten([i \in 1..Len(slice0(crons, 9)) |->
        LET c == crons[i]
            healthClass == IF c.status = "error" THEN "<div class=cron-health error>"
                           ELSE "<div class=cron-health ok>"
        IN <<"<div class=cron-item>", healthClass, DIVC, "<span class=cron-name>">>
             \o escapeHtml(c.name)
             \o <<SPANC, "<span class=cron-schedule>">>
             \o escapeHtml(formatSchedule(NextOrSchedule(c)))
             \o <<SPANC, DIVC>>])

buildDetailedCronGrid(crons) ==
    Flatten([i \in 1..Len(slice0(crons, 12)) |->
        LET c == crons[i]
            healthClass == IF c.status = "error" THEN "error"
                           ELSE IF c.last = <<"-">> \/ c.last = <<"never">> THEN "warning"
                           ELSE "ok"
            item == CASE healthClass = "error" -> "<div class=cron-item title=ERROR>"
                      [] healthClass = "warning" -> "<div class=cron-item title=Never-run style=opacity>"
                      [] OTHER -> "<div class=cron-item title=Last>"
            health == CASE healthClass = "error" -> "<div class=cron-health error>"
                        [] healthClass = "warning" -> "<div class=cron-health ok style=orange>"
                        [] OTHER -> "<div class=cron-health ok>"
            lastRun == IF c.last # <<>> /\ c.last # <<"-">> THEN <<" (">> \o c.last \o <<")">> ELSE <<>>
        IN <<item, health, DIVC, "<span class=cron-name>">>
             \o escapeHtml(c.name)
             \o <<SPANC, "<span class=cron-schedule>">>
             \o escapeHtml(formatSchedule(NextOrSchedule(c))) \o escapeHtml(lastRun)
             \o <<SPANC, DIVC>>])

\* t.area || t.project || 'Personal'
AreaOrProject(t) == IF t.area # <<>> THEN t.area
                    ELSE IF t.project # <<>> THEN t.project ELSE <<"Personal">>

buildActiveWork(tasks) ==
    IF Len(tasks) = 0 THEN <<MUTED, "No active tasks today", DIVC>>
    ELSE Flatten([i \in 1..Len(slice0(tasks, 4)) |->
        <<WORKITEM, "<div class=work-status waiting>", DIVC, WORKINFO, WORKTITLE>>
          \o escapeHtml(tasks[i].title)
          \o <<DIVC, WORKPROJECT>>
          \o escapeHtml(AreaOrProject(tasks[i]))
          \o <<DIVC, DIVC, "<div class=work-progress>", "<div class=work-progress-bar>",
               DIVC, DIVC, DIVC>>])

TypeIcon(agentType) ==
    CASE agentType = "main" -> "icon-main"
      [] agentType = "subagent" -> "icon-subagent"
      [] agentType = "cron" -> "icon-cron"
      [] agentType = "slack" -> "icon-slack"
      [] OTHER -> "icon-robot"

buildAgentContent(agentData) ==
    IF Len(agentData.active) = 0 THEN <<MUTED, "No active agents", DIVC>>
    ELSE Flatten([i \in 1..Len(slice0(agentData.active, 5)) |->
        LET a == agentData.active[i]
            statusClass == IF a.isActive THEN "<div class=work-status running>"
                           ELSE "<div class=work-status waiting>"
            \* tokenUsage is null when percent < 0
            tokenInfo == IF a.tokenPercent >= 0
                         THEN <<" (", ToString(a.tokenPercent), "% ctx)">> ELSE <<>>
        IN <<WORKITEM, statusClass, DIVC, WORKINFO, WORKTITLE, TypeIcon(a.agentType)>>
             \o escapeHtml(a.agentName) \o escapeHtml(tokenInfo)
             \o <<DIVC, WORKPROJECT>>
             \o escapeHtml(a.age)
             \o <<DIVC, DIVC, DIVC>>])

buildAgentSection(agentData) ==
    <<CARD, HEADER, CTITLE, "Active Agents", DIVC, BADGEC["green"], ToString(agentData.count),
      SPANC, DIVC>>
      \o buildAgentContent(agentData) \o <<DIVC>>

\* toLocaleTimeString of an entry's timestamp
TimeStr(timestamp) == <<"time", ToString(timestamp)>>

\* activities is what loadActivityLog() returns
buildActivityContent(activities) ==
    IF Len(slice0(activities, 8)) = 0 THEN <<MUTED, "No recent activity", DIVC>>
    ELSE Flatten([i \in 1..Len(slice0(activities, 8)) |->
        LET a == activities[i] IN
        <<WORKITEM, "<div class=work-status style=blue>", DIVC, WORKINFO, WORKTITLE>>
          \o escapeHtml(a.action)
          \o <<DIVC, WORKPROJECT>>
          \o escapeHtml(TimeStr(a.timestamp))
          \o (IF a.details # <<>> THEN <<" - ">> \o escapeHtml(slice0(a.details, 50)) ELSE <<>>)
          \o <<DIVC, DIVC, DIVC>>])

buildActivitySection(activities) ==
    <<CARD, HEADER, CTITLE, "Activity Log", DIVC, DIVC>>
      \o buildActivityContent(activities) \o <<DIVC>>

buildQuickActionsSection ==
    <<QACARD, HEADER, CTITLE, "Quick Actions", DIVC, DIVC, "<div style=flex>",
      "<button>Refresh Dashboard</button>", "<button>Check Sessions</button>",
      "<button>Sync Things</button>", "<button>View Cron Logs</button>", DIVC, DIVC>>

buildSystemStatusSection(systemStatus) ==
    LET contextPercent == systemStatus.contextPercent
        contextColor == IF contextPercent > 80 THEN "<div class=health-value red style>"
                        ELSE IF contextPercent > 60 THEN "<div class=health-value orange style>"
                        ELSE "<div class=health-value green style>"
    IN <<SYSCARD, HEADER, CTITLE, "System Status", DIVC, DIVC, "<div style=grid>",
         HITEM, HVSTYLE, "v">> \o escapeHtml(systemStatus.clawdbotVersion)
         \o <<DIVC, HLABEL, "Clawdbot", DIVC, DIVC,
              HITEM, contextColor, ToString(contextPercent), "%", DIVC, HLABEL, "Main Context",
              DIVC, DIVC,
              HITEM, HVSTYLE, ToString(systemStatus.memoryFileSize), "KB", DIVC, HLABEL,
              "Memory Files", DIVC, DIVC,
              HITEM, HVSTYLE, ToString(systemStatus.notesFileCount), DIVC, HLABEL, "Notes Files",
              DIVC, DIVC,
              DIVC, DIVC>>

\* state.needsJordan || []
NeedsJordan(state) == IF Has(state, "needsJordan") THEN state.needsJordan ELSE <<>>

\* the items buildNeedsYouSection renders
NeedsYouAllItems(needsYouItems, state) ==
    slice0(slice0(NeedsJordan(state), 2) \o slice0(needsYouItems, 3), 5)

buildNeedsYouSection(needsYouItems, state) ==
    LET allItems == NeedsYouAllItems(needsYouItems, state)
        itemsHtml == Flatten([i \in 1..Len(allItems) |->
            LET item == allItems[i] IN
            <<"<div class=need-item>", "<h4>">> \o escapeHtml(item.title)
              \o <<"</h4>", "<p>">> \o escapeHtml(Or(item.context, item.description))
              \o <<"</p>", "<div class=need-meta>", "<span>">>
              \o escapeHtml(Or(item.source, Or(item.project, item.type)))
              \o <<SPANC, "<span>">> \o escapeHtml(Or(item.priority, <<"P2">>))
              \o <<SPANC, DIVC, DIVC>>])
    IN <<NJCARD, HEADER, CTITLE, "NEEDS YOU", DIVC, BADGE, ToString(Len(allItems)), SPANC, DIVC>>
         \o itemsHtml \o <<DIVC>>

\* Math.round(100 * a / b) for naturals, b > 0
RoundPct(a, b) == (200 * a + b) \div (2 * b)

buildRocksSection(lifeOSData) ==
    LET rocksCompleted == lifeOSData.rocksCompleted
        rocksTotal == lifeOSData.rocksTotal
        daysUntilQ1End == lifeOSData.daysUntilQ1End
        progressPercent == IF rocksTotal > 0 THEN RoundPct(rocksCompleted, rocksTotal) ELSE 0
        urgencyClass == IF daysUntilQ1End <= 30 THEN "urgent"
                        ELSE IF daysUntilQ1End <= 45 THEN "soon" ELSE ""
        daysBadge == IF urgencyClass = "urgent" THEN BADGEC[""]
                     ELSE IF urgencyClass = "soon" THEN BADGEC["orange"] ELSE BADGEC["blue"]
        rocksHtml == Flatten([i \in 1..Len(lifeOSData.rocks) |->
            LET r == lifeOSData.rocks[i] IN
            <<"<div class=milestone-item>",
              IF r.done THEN "<div class=milestone-check done>" ELSE "<div class=milestone-check >",
              DIVC, "<div class=milestone-info>",
              IF r.done THEN "<div class=milestone-name done>" ELSE "<div class=milestone-name >">>
              \o escapeHtml(r.description) \o <<DIVC, DIVC, DIVC>>])
    IN <<ROCKSCARD, HEADER, "<div class=card-title style>", "Q1 2026 Rocks", DIVC, "<div style=flex>",
         daysBadge, ToString(daysUntilQ1End), "d left", SPANC,
         IF rocksCompleted > 0 THEN BADGEC["green"] ELSE BADGEC[""],
         ToString(rocksCompleted), "/", ToString(rocksTotal), SPANC, DIVC, DIVC,
         "<div class=goal-progress-container>", "<div class=goal-progress-header>",
         "<span class=goal-progress-label>", "Overall Q1 Progress", SPANC,
         GPV, ToString(progressPercent), PCTSPAN, DIVC,
         "<div class=goal-progress-bar>", "<div class=goal-progress-fill style=width:",
         ToString(progressPercent), "%; background></div>", DIVC, DIVC,
         "<div style=grid>">>
         \o rocksHtml \o <<DIVC, DIVC>>

buildScorecardSection(lifeOSData) ==
    LET metricsHtml == Flatten([i \in 1..Len(lifeOSData.scorecard) |->
            LET m == lifeOSData.scorecard[i]
                actual == IF m.actual # <<>> THEN m.actual ELSE <<"-">>
            IN <<"<div style=row>", "<span>">> \o escapeHtml(m.metric)
                 \o <<SPANC, "<div style=flex>", "<span>", "Target: ">> \o escapeHtml(m.target)
                 \o <<SPANC, IF m.actual # <<>> /\ m.actual # <<"-">>
                             THEN "<span style=green>" ELSE "<span style=muted>">>
                 \o escapeHtml(actual) \o <<SPANC, DIVC, DIVC>>])
    IN <<SCORECARD, HEADER, CTITLE, "Weekly Scorecard", DIVC, BADGEC["blue"], "This Week", SPANC,
         DIVC, "<div>">> \o metricsHtml \o <<DIVC, DIVC>>

----------------------------------------------------------------------------
(* updateDashboardHTML: the rewrite rules, in the order of the source.       *)
(* h is the html buffer; c holds the arguments of updateDashboardHTML        *)
(* (state, cronData, tasks, agentData, ouraData, lifeOSData, extraData),     *)
(* what loadActivityLog() returns (activities) and the clock (now).          *)

G1 == <<"$", "1">>
G2 == <<"$", "2">>

\* toLocaleDateString of now
DateStr(now) == <<"date", ToString(now)>>

\* 1. timestamp
Rule1(h, c) == replace(h, <<One({"Updated: "}), Run(TagAtoms)>>, <<"Updated: ">> \o DateStr(c.now))

\* (<div class="health-value[^"]*">)\d+(<\/div>\s*<div class="health-label">label)
HealthNumber(label) == <<Mark, One(HVAny), Mark, One(Digits), Mark>> \o L(<<DIVC, HLABEL, label>>) \o <<Mark>>

\* 2. System Health numbers and colors: the six replaces, in the order of the code
CronsOkNumber(h, c) ==
    replace(h, <<Mark, One(HVAny), Mark, One(Digits), One({"/"}), One(Digits), Mark>>
                  \o L(<<DIVC, HLABEL, "Crons OK">>) \o <<Mark>>,
            G1 \o <<ToString(c.cronData.healthy), "/", ToString(c.cronData.total)>> \o G2)

CronsOkColor(h, c) ==
    replace(h, <<One(HVWord), Mark, One(Digits), One({"/"}), One(Digits), Mark>>
                  \o L(<<DIVC, HLABEL, "Crons OK">>),
            <<HV[IF Len(c.cronData.errors) > 0 THEN "orange" ELSE "green"],
              ToString(c.cronData.healthy), "/", ToString(c.cronData.total),
              DIVC, HLABEL, "Crons OK">>)

AgentsNumber(h, c) ==
    replace(h, HealthNumber("Agents"), G1 \o <<ToString(c.agentData.count)>> \o G2)

TasksNumber(h, c) == replace(h, HealthNumber("Tasks"), G1 \o <<ToString(Len(c.tasks))>> \o G2)

BlockedNumber(h, c) ==
    replace(h, HealthNumber("Blocked"), G1 \o <<ToString(Len(c.cronData.errors))>> \o G2)

BlockedColor(h, c) ==
    replace(h, <<One(HVAny), Mark, One(Digits), Mark>> \o L(<<DIVC, HLABEL, "Blocked">>),
            <<HV[IF Len(c.cronData.errors) > 0 THEN "red" ELSE ""],
              ToString(Len(c.cronData.errors)), DIVC, HLABEL, "Blocked">>)

Rule2(h, c) ==
    BlockedColor(BlockedNumber(TasksNumber(AgentsNumber(
        CronsOkColor(CronsOkNumber(h, c), c), c), c), c), c)

\* 2b. Body Health (ouraData.resilience is set on both return paths of getOuraBodyStats)
resColor(resLevel) ==
    IF resLevel = <<"strong">> \/ resLevel = <<"adequate">> THEN "green"
    ELSE IF resLevel = <<"limited">> THEN "orange" ELSE "red"

stressColor(stressSummary) ==
    CASE stressSummary = <<"restored">> -> "green"
      [] stressSummary = <<"normal">> -> "orange"
      [] stressSummary = <<"stressful">> -> "red"
      [] OTHER -> ""

vo2Display(vo2) ==
    IF vo2.current > 0
    THEN <<ToString(vo2.current), "<span class=trend>">> \o vo2.trend \o <<SPANC>>
    ELSE <<"N/A">>

Resilience(h, c) ==
    replace(h, <<One({HVRES[x] : x \in DOMAIN HVRES}), Run(TagAtoms), One({DIVC})>>,
            <<HVRES[resColor(c.ouraData.resilience.level)]>>
              \o escapeHtml(c.ouraData.resilience.level) \o <<DIVC>>)

Stress(h, c) ==
    replace(h, <<One({HVSTRESS[x] : x \in DOMAIN HVSTRESS}), Run(TagAtoms), One({DIVC})>>,
            <<HVSTRESS[stressColor(c.ouraData.stress.summary)]>>
              \o escapeHtml(c.ouraData.stress.summary) \o <<DIVC>>)

Vo2(h, c) ==
    replace(h, <<One({HVVO2}), Lazy, One({DIVC}), Mark>> \o L(<<HLABEL, "VO2 Max">>) \o <<Mark>>,
            <<HVVO2>> \o vo2Display(c.ouraData.vo2) \o <<DIVC>> \o G1)

Rule2b(h, c) == Vo2(Stress(Resilience(h, c), c), c)

\* 3. Needs Jordan badge count: state.needsJordan?.length || 3
Rule3(h, c) ==
    LET needsCount == IF Len(NeedsJordan(c.state)) > 0 THEN Len(NeedsJordan(c.state)) ELSE 3 IN
    replace(h, <<Mark>> \o L(<<CTITLE, "NEEDS YOU", DIVC, BADGE>>) \o <<Mark, One(Digits), Mark>>
                  \o L(<<SPANC>>) \o <<Mark>>,
            G1 \o <<ToString(needsCount)>> \o G2)

\* 4. cron badge
Rule4(h, c) ==
    replace(h, <<Mark>> \o L(<<CTITLE, "Cron Jobs", DIVC>>) \o <<One(BadgeAny), Mark,
                  One(Digits), One({"/"}), One(Digits), Mark>> \o L(<<SPANC>>) \o <<Mark>>,
            G1 \o <<ToString(c.cronData.healthy), "/", ToString(c.cronData.total)>> \o G2)

\* <div class="cron-grid">[\s\S]*?<\/div>(\s*<\/div>\s*<\/div>\s*<\/div>\s*<!-- LIFE OS VIEW -->)
CronGridPattern == L(<<CRONGRID>>) \o <<Lazy>> \o L(<<DIVC>>) \o <<Mark>>
                     \o L(<<DIVC, DIVC, DIVC, LIFEOSVIEW>>) \o <<Mark>>

\* 5. cron grid
Rule5(h, c) == replace(h, CronGridPattern, <<CRONGRID>> \o buildCronGrid(c.cronData.crons) \o <<DIVC>> \o G1)

\* 6. active work
Rule6(h, c) ==
    replace(h, <<Mark>> \o L(<<HEADER, CTITLE, "Active Work", DIVC, DIVC>>) \o <<Mark, Lazy, Mark>>
                  \o L(<<DIVC, CARD, HEADER, CTITLE, "Coming Up">>) \o <<Mark>>,
            G1 \o buildActiveWork(c.tasks) \o G2)

CronJobsCard == <<Mark>> \o L(<<CARDWIDE, HEADER, CTITLE, "Cron Jobs">>) \o <<Mark>>

\* 7. Agent Status Panel and Activity Log sections
Rule7(h, c) ==
    LET newSections == buildAgentSection(c.agentData) \o buildActivitySection(c.activities) IN
    IF includes(h, "Active Agents")
    THEN replace(h, L(<<CARD, HEADER, CTITLE, "Active Agents">>) \o <<Lazy>>
                      \o L(<<DIVC, DIVC, CARD, HEADER, CTITLE, "Activity Log">>) \o <<Lazy>>
                      \o L(<<DIVC, DIVC>>) \o CronJobsCard,
                 newSections \o G1)
    ELSE replace(h, CronJobsCard, newSections \o G1)

\* 7b. Needs You section (extraData.needsYouItems is an array, which is truthy)
Rule7b(h, c) ==
    replace(h, L(<<NJCARD>>) \o <<Lazy>> \o L(<<DIVC, DIVC>>) \o <<Mark>> \o L(<<APPROVAL>>) \o <<Mark>>,
            buildNeedsYouSection(c.extraData.needsYouItems, c.state) \o G1)

\* a variant of rule 7c that puts the panel at the end when it finds no anchor
Rule7cAppend(h, c) ==
    IF ~includes(h, QACARD) /\ ~includes(h, "System Health")
    THEN h \o buildQuickActionsSection
    ELSE h

\* 7c. Quick Actions panel
Rule7c(h, c) ==
    IF ~includes(h, QACARD)
    THEN replace(h, <<Mark>> \o L(<<DIVC, DIVC>>) \o <<Mark, Mark>>
                      \o L(<<CARD, HEADER, CTITLE, "System Health">>) \o <<Mark>>,
                 G1 \o buildQuickActionsSection \o G2)
    ELSE h

\* 7d. System Status panel (extraData.systemStatus is an object, which is truthy)
Rule7d(h, c) ==
    LET systemStatusHtml == buildSystemStatusSection(c.extraData.systemStatus) IN
    IF includes(h, SYSCARD)
    THEN replace(h, L(<<SYSCARD>>) \o <<Lazy>> \o L(<<DIVC, DIVC, DIVC>>), systemStatusHtml)
    ELSE replace(h, <<Mark>> \o L(<<DIVC, DIVC>>) \o <<Mark, Mark>>
                      \o L(<<CARD, HEADER, CTITLE, "Active Work">>) \o <<Mark>>,
                 G1 \o systemStatusHtml \o G2)

\* 7e. detailed cron grid
Rule7e(h, c) ==
    replace(h, CronGridPattern, <<CRONGRID>> \o buildDetailedCronGrid(c.cronData.crons) \o <<DIVC>> \o G1)

\* the two replaces of one goal: the fill bar's width, then the percentage text
GoalFill(h, goal, progress) ==
    replace(h, <<Mark>> \o L(<<FILL[goal]>>) \o <<Mark, One(Digits), Mark>>
                  \o L(<<FILLEND>>) \o <<Mark>>,
            G1 \o <<ToString(progress)>> \o G2)

GoalText(h, goal, progress) ==
    replace(h, <<Mark>> \o L(<<GPV>>) \o <<Mark, One(Digits), Mark>> \o L(<<PCTSPAN>>)
                  \o <<Lazy>> \o L(<<FILL[goal]>>) \o <<Mark>>,
            G1 \o <<ToString(progress)>> \o G2)

GoalProgress(h, goal, progress) == GoalText(GoalFill(h, goal, progress), goal, progress)

\* lifeOSData.goals.<goal>?.progress || dflt
ProgressOr(goals, goal, dflt) ==
    IF Has(goals, goal) /\ goals[goal].progress # 0 THEN goals[goal].progress ELSE dflt

\* 8. Life OS goal progress (lifeOSData.goals is an object on both return paths: truthy)
Rule8(h, c) ==
    GoalProgress(
      GoalProgress(
        GoalProgress(
          GoalProgress(
            GoalProgress(h, "income", ProgressOr(c.lifeOSData.goals, "income", 0)),
            "body", ProgressOr(c.lifeOSData.goals, "body", 0)),
          "love", ProgressOr(c.lifeOSData.goals, "relationship", 0)),
        "freedom", ProgressOr(c.lifeOSData.goals, "freedom", 0)),
      "joy", ProgressOr(c.lifeOSData.goals, "lifeQuality", 60))

\* 9. Q1 Rocks section
Rule9(h, c) ==
    IF Len(c.lifeOSData.rocks) > 0
    THEN LET rocksHtml == buildRocksSection(c.lifeOSData) IN
         IF includes(h, ROCKSCARD)
         THEN replace(h, L(<<ROCKSCARD>>) \o <<Lazy>> \o L(<<DIVC, DIVC>>)
                           \o <<Mark, Alt(<<DIVC, DIVC, LIFEOSVIEW>>, <<SCORECARD>>), Mark>>,
                      rocksHtml \o G1)
         ELSE replace(h, <<Mark, Alt(<<DIVC, GOALSEND>>, <<DIVC, DIVC, DIVC, LIFEOSVIEW>>), Mark>>,
                      <<DIVC>> \o rocksHtml \o G1)
    ELSE h

\* 10. Weekly Scorecard section
Rule10(h, c) ==
    IF Len(c.lifeOSData.scorecard) > 0 /\ includes(h, SCORECARD)
    THEN replace(h, L(<<SCORECARD>>) \o <<Lazy>> \o L(<<DIVC, DIVC>>)
                      \o <<Mark, Alt(<<DIVC, DIVC, LIFEOSEND>>, <<FOOTER>>), Mark>>,
                 buildScorecardSection(c.lifeOSData) \o G1)
    ELSE h

\* the buffer before rule 7 and before rule 9
Before7(h, c) == Rule6(Rule5(Rule4(Rule3(Rule2b(Rule2(Rule1(h, c), c), c), c), c), c), c)
Before7c(h, c) == Rule7b(Rule7(Before7(h, c), c), c)
Before7d(h, c) == Rule7c(Before7c(h, c), c)
Before9(h, c) == Rule8(Rule7e(Rule7d(Before7d(h, c), c), c), c)

\* the buffer at the end of updateDashboardHTML
PatchedHTML(h, c) == Rule10(Rule9(Before9(h, c), c), c)

----------------------------------------------------------------------------
(* The hand-authored index.html: every anchor of the rules, nothing else   *)

Goal5 == <<"income", "body", "love", "freedom", "joy">>

GoalsGrid == Flatten([i \in 1..5 |-> <<GPV, "0", PCTSPAN, FILL[Goal5[i]], "0", FILLEND>>])

Doc0 ==
    <<"<span class=updated>", "Updated: ", "date", "0", SPANC,
      "<div id=dashboard-view>", "<div class=grid>",
      NJCARD, HEADER, CTITLE, "NEEDS YOU", DIVC, BADGE, "3", SPANC, DIVC,
          "<div class=need-item>", "<h4>", "Sample", "</h4>", DIVC, DIVC,
      APPROVAL, "<div class=approval-list>", DIVC, DIVC,
      CARD, HEADER, CTITLE, "System Health", DIVC, DIVC,
          HV["green"], "0", "/", "0", DIVC, HLABEL, "Crons OK", DIVC,
          HV["none"], "0", DIVC, HLABEL, "Agents", DIVC,
          HV["none"], "0", DIVC, HLABEL, "Tasks", DIVC,
          HV["none"], "0", DIVC, HLABEL, "Blocked", DIVC,
          DIVC,
      CARD, HEADER, CTITLE, "Body", DIVC, DIVC,
          HVRES["none"], "N/A", DIVC, HLABEL, "Resilience", DIVC,
          HVSTRESS["none"], "N/A", DIVC, HLABEL, "Stress", DIVC,
          HVVO2, "N/A", DIVC, HLABEL, "VO2 Max", DIVC,
          DIVC,
      CARD, HEADER, CTITLE, "Active Work", DIVC, DIVC, MUTED, "Sample", DIVC, DIVC,
      CARD, HEADER, CTITLE, "Coming Up", DIVC, DIVC, DIVC,
      CARDWIDE, HEADER, CTITLE, "Cron Jobs", DIVC, BADGEC["green"], "0", "/", "0", SPANC, DIVC,
          CRONGRID, DIVC, DIVC,
      DIVC, DIVC,
      LIFEOSVIEW,
      "<div id=lifeos-view>", "<div class=goals-grid>">>
      \o GoalsGrid \o
    <<DIVC,
      SCORECARD, HEADER, CTITLE, "Weekly Scorecard", DIVC, DIVC, "<div>", DIVC, DIVC,
      DIVC, DIVC, LIFEOSEND, FOOTER>>

\* index.html after schema drift: the cards the insertion rules look for are gone
DocDrift ==
    <<"<span class=updated>", "Updated: ", "date", "0", SPANC,
      "<div id=dashboard-view>", "<div class=grid>",
      CARD, HEADER, CTITLE, "Body", DIVC, DIVC,
          HVVO2, "N/A", DIVC, HLABEL, "VO2 Max", DIVC,
          DIVC,
      CARD, HEADER, CTITLE, "Active Work", DIVC, DIVC, MUTED, "Sample", DIVC, DIVC,
      CARD, HEADER, CTITLE, "Coming Up", DIVC, DIVC, DIVC,
      DIVC, DIVC, FOOTER>>

\* index.html with none of the anchors
DocBare == <<FOOTER>>

Docs == {Doc0, DocDrift, DocBare}

----------------------------------------------------------------------------
(* Adapter outputs *)

TextA == <<"a">>
TextX == <<"<", "&", "\"", ">">>
TextD == <<"$", "2">>

NoText == <<>>

Cron(name, last, status) ==
    [id |-> "id", name |-> name, schedule |-> <<"cron ", "0", " ", "9", " * * *">>,
     next |-> <<>>, last |-> last, status |-> status,
     color |-> IF status = "error" THEN "red"
               ELSE IF status = "running" THEN "blue"
               ELSE IF last = <<"-">> \/ last = <<"never">> THEN "orange" ELSE "green"]

\* what getCronDetailedStatus returns for the retained rows crons
cronSummary(crons) ==
    LET IsHealthy(c) == c.status = "ok" \/ c.status = "idle"
        IsError(c) == c.status = "error"
    IN [crons |-> crons, healthy |-> Len(SelectSeq(crons, IsHealthy)), total |-> Len(crons),
        errors |-> SelectSeq(crons, IsError)]

CronsNone == <<>>
CronsThree(t) == <<Cron(t, <<"2", "h ago">>, "error"), Cron(TextA, <<"never">>, "idle"),
                   Cron(TextA, <<"1", "h ago">>, "ok")>>

Task(title) == [uuid |-> "u1", title |-> title, project |-> NoText, area |-> NoText]

\* getActiveAgents: the provider failed
AgentsFailed == [active |-> <<>>, count |-> 1]
AgentsMain(name) ==
    [active |-> <<[key |-> "agent:main:main", agentName |-> name, agentType |-> "main",
                   age |-> <<"just now">>, tokenPercent |-> 42, isActive |-> TRUE]>>,
     count |-> 1]

\* getOuraBodyStats: the provider failed / answered
OuraFailed == [resilience |-> [level |-> <<"unknown">>], stress |-> [summary |-> <<"unknown">>],
               vo2 |-> [current |-> 0, trend |-> <<>>]]
OuraOk == [resilience |-> [level |-> <<"adequate">>], stress |-> [summary |-> <<"normal">>],
           vo2 |-> [current |-> 37, trend |-> <<"up">>]]

\* getLifeOSData: the file is missing / holds two rocks and one metric
LifeFailed == [rocks |-> <<>>, scorecard |-> <<>>, goals |-> EmptyObj, rockProgress |-> 0,
               rocksCompleted |-> 0, rocksTotal |-> 0, daysUntilQ1End |-> 60]
LifeTwo(t) ==
    [rocks |-> <<[number |-> 1, description |-> t, owner |-> TextA, done |-> TRUE],
                 [number |-> 4, description |-> TextA, owner |-> TextA, done |-> FALSE]>>,
     scorecard |-> <<[metric |-> t, target |-> TextA, actual |-> NoText]>>,
     goals |-> [income |-> [progress |-> 100], body |-> [progress |-> 0],
                relationship |-> [progress |-> 0], freedom |-> [progress |-> 0],
                lifeQuality |-> [progress |-> 60]],
     rockProgress |-> 50, rocksCompleted |-> 1, rocksTotal |-> 2, daysUntilQ1End |-> 20]

SystemStatus(version) ==
    [clawdbotVersion |-> version, contextPercent |-> 42, memoryFileSize |-> 7,
     notesFileCount |-> 3]

Awaiting(title) == [title |-> title, channel |-> TextA, status |-> NoText, whereToCheck |-> NoText]

\* main: the "Needs You" items of the awaiting responses and the priority tasks
needsYouItems(awaitingResponses, priorityTasks) ==
    [i \in 1..Len(awaitingResponses) |->
        LET a == awaitingResponses[i] IN
        [type |-> <<"awaiting">>, title |-> a.title,
         context |-> Or(a.status, <<"Check: ">> \o a.channel), description |-> NoText,
         priority |-> <<"P2">>, source |-> a.channel, project |-> NoText]]
    \o
    [i \in 1..Len(priorityTasks) |->
        LET t == priorityTasks[i] IN
        [type |-> <<"task">>, title |-> t.title,
         context |-> IF t.project # <<>> THEN <<"Project: ">> \o t.project ELSE <<"Today task">>,
         description |-> NoText, priority |-> <<"P1">>, source |-> <<"Things">>,
         project |-> NoText]]

\* the adapters' outputs of one run: t is the text the sources hold, title the
\* title of the one task of today, rich says whether the sources answered at all
Input(t, title, rich) ==
    LET tasks == IF rich THEN <<Task(title)>> ELSE <<>>
        priorityTasks == IF rich THEN <<Task(t)>> ELSE <<>>
        awaiting == IF rich THEN <<Awaiting(t)>> ELSE <<>>
    IN [cronData |-> cronSummary(IF rich THEN CronsThree(t) ELSE CronsNone),
        tasks |-> tasks,
        agentData |-> IF rich THEN AgentsMain(t) ELSE AgentsFailed,
        ouraData |-> IF rich THEN OuraOk ELSE OuraFailed,
        lifeOSData |-> IF rich THEN LifeTwo(t) ELSE LifeFailed,
        taskCounts |-> [today |-> Len(tasks), inbox |-> 0, total |-> Len(tasks)],
        systemStatus |-> SystemStatus(IF rich THEN t ELSE <<"unknown">>),
        awaitingResponses |-> awaiting,
        needsYouItems |-> needsYouItems(awaiting, priorityTasks)]

InputPlain == Input(TextA, TextA, TRUE)
InputMarkup == Input(TextX, TextX, TRUE)
InputDollar == Input(TextA, TextD, TRUE)
InputNone == Input(NoText, NoText, FALSE)

\* an input with a report of MaxCrons jobs, in turn running, in error and never run, running
\* and never run, idle and never run, ok
CronsMany ==
    [i \in 1..MaxCrons |->
        CASE i % 5 = 1 -> Cron(TextA, <<"2", "h ago">>, "running")
          [] i % 5 = 2 -> Cron(TextA, <<"never">>, "error")
          [] i % 5 = 3 -> Cron(TextA, <<"-">>, "running")
          [] i % 5 = 4 -> Cron(TextA, <<"never">>, "idle")
          [] OTHER -> Cron(TextA, <<"1", "h ago">>, "ok")]

\* the same with four fresh needs-attention items, of two awaited responses
\* and two priority tasks
InputMany ==
    [InputPlain EXCEPT
        !.cronData = cronSummary(CronsMany),
        !.awaitingResponses = <<Awaiting(<<"a">>), Awaiting(<<"b">>)>>,
        !.needsYouItems = needsYouItems(<<Awaiting(<<"a">>), Awaiting(<<"b">>)>>,
                                        <<Task(<<"c">>), Task(<<"d">>)>>)]
Inputs == {InputPlain, InputMarkup, InputDollar, InputNone, InputMany}

\* the external data providers, one per adapter of main
Providers == {"cron", "things", "agents", "oura", "lifeOS", "counts", "awaiting", "priority",
              "system"}

\* getSystemStatus when each of its four tries failed
SystemUnknown == [clawdbotVersion |-> <<"unknown">>, contextPercent |-> 0, memoryFileSize |-> 0,
                  notesFileCount |-> 0]

\* what the adapters return when the providers in failed throw inside the
\* adapter's try and the others answer as for InputPlain: each adapter returns
\* the value of its catch block, or what it parsed
Collected(failed) ==
    [cronData |-> cronSummary(IF "cron" \in failed THEN <<>> ELSE CronsThree(TextA)),
     tasks |-> IF "things" \in failed THEN <<>> ELSE <<Task(TextA)>>,
     agentData |-> IF "agents" \in failed THEN AgentsFailed ELSE AgentsMain(TextA),
     ouraData |-> IF "oura" \in failed THEN OuraFailed ELSE OuraOk,
     lifeOSData |-> IF "lifeOS" \in failed THEN LifeFailed ELSE LifeTwo(TextA),
     taskCounts |-> IF "counts" \in failed THEN [today |-> 0, inbox |-> 0, total |-> 0]
                    ELSE [today |-> 1, inbox |-> 0, total |-> 1],
     systemStatus |-> IF "system" \in failed THEN SystemUnknown ELSE SystemStatus(TextA),
     awaitingResponses |-> IF "awaiting" \in failed THEN <<>> ELSE <<Awaiting(TextA)>>,
     needsYouItems |-> needsYouItems(IF "awaiting" \in failed THEN <<>> ELSE <<Awaiting(TextA)>>,
                                     IF "priority" \in failed THEN <<>> ELSE <<Task(TextA)>>)]

\* the arguments main passes to updateDashboardHTML, with what it reads itself
Ctx(state, in, activities, now) ==
    [state |-> state, cronData |-> in.cronData, tasks |-> in.tasks, agentData |-> in.agentData,
     ouraData |-> in.ouraData, lifeOSData |-> in.lifeOSData,
     extraData |-> [needsYouItems |-> in.needsYouItems, systemStatus |-> in.systemStatus],
     activities |-> activities, now |-> now]

----------------------------------------------------------------------------
(* getLifeOSData: the progress figures it computes from the parsed rocks *)

\* Math.round((a / b) * 100): NaN when b is 0
MathRoundPct(a, b) ==
    IF b = 0 THEN [nan |-> TRUE, v |-> 0] ELSE [nan |-> FALSE, v |-> RoundPct(a, b)]

\* a variant of x || 0 that lets NaN through, as the number -1
OrZeroLoose(x) == IF x.nan THEN 0 - 1 ELSE x.v

\* x || 0 on a number: NaN and 0 are falsy
OrZero(x) == IF x.nan \/ x.v = 0 THEN 0 ELSE x.v

\* rocks.filter(r => members.includes(r.number)) and its .filter(r => r.done), by index
RocksIn(rocks, members) == {i \in 1..Len(rocks) : rocks[i].number \in members}
DoneIn(rocks, members) == {i \in RocksIn(rocks, members) : rocks[i].done}

\* goals.<g>.progress = Math.round((done.length / group.length) * 100) || 0
goalProgress(rocks, members) ==
    OrZero(MathRoundPct(Cardinality(DoneIn(rocks, members)), Cardinality(RocksIn(rocks, members))))

GoalRocks == [income |-> {1, 2, 3, 5, 8}, body |-> {4}, relationship |-> {6}, freedom |-> {3, 5, 7}]

\* the progress figures of getLifeOSData's result
lifeProgress(rocks) ==
    [goals |-> [g \in DOMAIN GoalRocks |-> goalProgress(rocks, GoalRocks[g])],
     rocksCompleted |-> Cardinality({i \in 1..Len(rocks) : rocks[i].done}),
     rocksTotal |-> Len(rocks),
     rockProgress |-> IF Len(rocks) > 0
                      THEN RoundPct(Cardinality({i \in 1..Len(rocks) : rocks[i].done}), Len(rocks))
                      ELSE 0]

----------------------------------------------------------------------------
(* getLifeOSData: the sections of life-vto.md.  The file is a sequence of   *)
(* tokens: "#", " ", "|", the newline "\n", and one token for each heading  *)
(* title, table cell or other run of text.                                  *)

\* content.split('\n')
split(t) ==
    [k \in 1..(Len(Places(t, "\n")) + 1) |->
        SubSeq(t,
               (IF k = 1 THEN 0 ELSE Places(t, "\n")[k - 1]) + 1,
               (IF k > Len(Places(t, "\n")) THEN Len(t) + 1 ELSE Places(t, "\n")[k]) - 1)]

\* where content.match(/### <title>[\s\S]*?(?=###|$)/) starts, 0 without a match
SectionStart(content, title) ==
    Least({i \in 1..Len(content) : IsAt(content, i, <<"#", "#", "#", " ", title>>)})

\* where the lazy run ends: before the next "###", wherever it stands, or at
\* the end of the input
SectionEnd(content, title) ==
    Least({Len(content) + 1}
            \cup {j \in (SectionStart(content, title) + 5)..Len(content) :
                     IsAt(content, j, <<"#", "#", "#">>)}) - 1

\* the lines of the section, none without a match
sectionLines(content, title) ==
    IF SectionStart(content, title) = 0 THEN <<>>
    ELSE split(SubSeq(content, SectionStart(content, title), SectionEnd(content, title)))

\* line.split('|').map(p => p.trim()).filter(Boolean)
parts(line) == SelectSeq(line, LAMBDA x : x \notin {"|", " "})

NumberCells == {"1", "4", "7"}

\* line.match(/^\|\s*\d+\s*\|/) and parts.length >= 4
IsRockLine(line) ==
    /\ Len(SelectSeq(line, LAMBDA x : x # " ")) >= 3
    /\ line[1] = "|"
    /\ SelectSeq(line, LAMBDA x : x # " ")[2] \in NumberCells
    /\ SelectSeq(line, LAMBDA x : x # " ")[3] = "|"
    /\ Len(parts(line)) >= 4

\* the record pushed for a rock line
rockOf(line) ==
    [number |-> NumOf(parts(line)[1]), description |-> <<parts(line)[2]>>,
     owner |-> <<parts(line)[3]>>, done |-> parts(line)[4] \in {"yes", "done"}]

\* line.startsWith('|') && !line.includes('Metric') && !line.match(/^\|[-\s|]+\|$/),
\* parts.length >= 2 and parts[0] not a run of dashes
IsMetricLine(line) ==
    /\ line # <<>>
    /\ line[1] = "|"
    /\ ~includes(line, "Metric")
    /\ \E i \in 1..Len(line) : line[i] \notin {"|", " ", "-"}
    /\ Len(parts(line)) >= 2
    /\ parts(line)[1] # "-"

metricOf(line) ==
    [metric |-> <<parts(line)[1]>>, target |-> <<parts(line)[2]>>,
     actual |-> IF Len(parts(line)) >= 3 THEN <<parts(line)[3]>> ELSE <<>>]

\* the rocks and the scorecard that getLifeOSData reads from content
lifeSections(content) ==
    [rocks |-> [k \in 1..Len(SelectSeq(sectionLines(content, "6. ROCKS"), IsRockLine)) |->
                   rockOf(SelectSeq(sectionLines(content, "6. ROCKS"), IsRockLine)[k])],
     scorecard |-> [k \in 1..Len(SelectSeq(sectionLines(content, "7. WEEKLY SCORECARD"),
                                           IsMetricLine)) |->
                       metricOf(SelectSeq(sectionLines(content, "7. WEEKLY SCORECARD"),
                                          IsMetricLine)[k])]]

----------------------------------------------------------------------------
(* getCronDetailedStatus and getCronStatus.  The scheduler's report is a    *)
(* sequence of lines, a line a sequence of one-character strings.           *)

\* String.prototype.substring(a, b) for 0 <= a <= b
substring(line, a, b) == SubSeq(line, Min(a, Len(line)) + 1, Min(b, Len(line)))

\* String.prototype.trimEnd and trim, for the blank as the only whitespace
trimEnd(t) == SubSeq(t, 1, Greatest({0} \cup {i \in 1..Len(t) : t[i] # " "}))
trim(t) ==
    SubSeq(t, Least({Len(t) + 1} \cup {i \in 1..Len(t) : t[i] # " "}),
           Greatest({0} \cup {i \in 1..Len(t) : t[i] # " "}))

UpperCase == <<"A", "B", "C", "D", "E", "F", "G", "H", "I", "J", "K", "L", "M",
               "N", "O", "P", "Q", "R", "S", "T", "U", "V", "W", "X", "Y", "Z">>
LowerCase == <<"a", "b", "c", "d", "e", "f", "g", "h", "i", "j", "k", "l", "m",
               "n", "o", "p", "q", "r", "s", "t", "u", "v", "w", "x", "y", "z">>

toLowerCase(t) ==
    [i \in 1..Len(t) |->
        IF \E k \in 1..26 : UpperCase[k] = t[i]
        THEN LowerCase[CHOOSE k \in 1..26 : UpperCase[k] = t[i]]
        ELSE t[i]]

sERROR == <<"e", "r", "r", "o", "r">>
sRUNNING == <<"r", "u", "n", "n", "i", "n", "g">>
sOK == <<"o", "k">>
sIDLE == <<"i", "d", "l", "e">>
sUNKNOWN == <<"u", "n", "k", "n", "o", "w", "n">>
sNEVER == <<"n", "e", "v", "e", "r">>
sDASH == <<"-">>

\* a variant of the color rule that tries the never-run branch first
cronColorNeverFirst(status, last) ==
    IF last = sDASH \/ last = sNEVER THEN "orange"
    ELSE IF status = sERROR THEN "red"
    ELSE IF status = sRUNNING THEN "blue" ELSE "green"

\* let color = 'green'; if ... else if ... else if ...
cronColor(status, last) ==
    IF status = sERROR THEN "red"
    ELSE IF status = sRUNNING THEN "blue"
    ELSE IF last = sDASH \/ last = sNEVER THEN "orange" ELSE "green"

\* the callback of lines.map in getCronStatus, for a line that is kept
cronRow(line) ==
    [id |-> trim(substring(line, 0, 36)),
     name |-> trim(substring(line, 37, 61)),
     schedule |-> trim(substring(line, 61, 94)),
     next |-> trim(substring(line, 94, 105)),
     last |-> trim(substring(line, 105, 116)),
     status |-> Or(toLowerCase(trim(substring(line, 116, 126))), sUNKNOWN)]

\* the callback of lines.map in getCronDetailedStatus, for a line that is kept:
\* the color is derived from the status as read, before the 'unknown' default
detailedCronRow(line) ==
    [id |-> trim(substring(line, 0, 36)),
     name |-> trim(substring(line, 37, 61)),
     schedule |-> trim(substring(line, 61, 94)),
     next |-> trim(substring(line, 94, 105)),
     last |-> trim(substring(line, 105, 116)),
     status |-> Or(toLowerCase(trim(substring(line, 116, 126))), sUNKNOWN),
     color |-> cronColor(toLowerCase(trim(substring(line, 116, 126))),
                         trim(substring(line, 105, 116)))]

\* output.trim().split('\n').slice(1), for an output given as its lines, none
\* of them blank: the trim cuts the blanks at the end of the last line
reportLines(output) ==
    IF Len(output) <= 1 THEN <<>>
    ELSE [i \in 1..(Len(output) - 1) |->
            IF i = Len(output) - 1 THEN trimEnd(output[i + 1]) ELSE output[i + 1]]

IsHealthyRow(c) == c.status = sOK \/ c.status = sIDLE
IsErrorRow(c) == c.status = sERROR
IsNeverRunRow(c) == c.last = sDASH \/ c.last = sNEVER

\* if (!id || !name) return null, and .filter(Boolean)
IsKeptRow(c) == c.id # <<>> /\ c.name # <<>>

\* the counts taken from the rows that are kept
statusCounts(crons) ==
    [crons |-> crons,
     healthy |-> Len(SelectSeq(crons, IsHealthyRow)),
     total |-> Len(crons),
     errors |-> SelectSeq(crons, IsErrorRow)]

detailedCounts(crons) ==
    [crons |-> crons,
     healthy |-> Len(SelectSeq(crons, IsHealthyRow)),
     total |-> Len(crons),
     errors |-> SelectSeq(crons, IsErrorRow),
     neverRun |-> SelectSeq(crons, IsNeverRunRow)]

\* what the try block of getCronStatus returns for an output of the scheduler
getCronStatus(output) ==
    statusCounts(SelectSeq([i \in 1..Len(reportLines(output)) |-> cronRow(reportLines(output)[i])],
                          IsKeptRow))

\* what the try block of getCronDetailedStatus returns: the same, with colors
getCronDetailedStatus(output) ==
    detailedCounts(SelectSeq([i \in 1..Len(reportLines(output)) |->
                                      detailedCronRow(reportLines(output)[i])], IsKeptRow))

----------------------------------------------------------------------------
(* parseAge.  An age is undefined or a string, a sequence of characters.    *)

DecimalDigits == <<"0", "1", "2", "3", "4", "5", "6", "7", "8", "9">>
IsDigit(ch) == \E k \in 1..10 : DecimalDigits[k] = ch

\* parseInt of a run of digits
RECURSIVE parseInt(_)
parseInt(t) ==
    IF t = <<>> THEN 0
    ELSE 10 * parseInt(SubSeq(t, 1, Len(t) - 1))
             + (CHOOSE k \in 1..10 : DecimalDigits[k] = t[Len(t)]) - 1

\* the end of the digits that \d+ takes when it starts at i
DigitsEnd(s, i) == Least({j \in i..Len(s) : j = Len(s) \/ ~IsDigit(s[j + 1])})

\* the starts at which /(\d+)(m|h|d)/ matches; String.prototype.match takes the least
MatchStarts(s) ==
    {i \in 1..Len(s) : /\ IsDigit(s[i])
                       /\ DigitsEnd(s, i) < Len(s)
                       /\ s[DigitsEnd(s, i) + 1] \in {"m", "h", "d"}}

sJUSTNOW == <<"j", "u", "s", "t", " ", "n", "o", "w">>

\* the minutes of the match that starts at i
ageOfMatch(s, i) ==
    IF s[DigitsEnd(s, i) + 1] = "m" THEN parseInt(SubSeq(s, i, DigitsEnd(s, i)))
    ELSE IF s[DigitsEnd(s, i) + 1] = "h" THEN parseInt(SubSeq(s, i, DigitsEnd(s, i))) * 60
    ELSE parseInt(SubSeq(s, i, DigitsEnd(s, i))) * 60 * 24

parseAge(ageStr) ==
    IF ageStr.kind # "string" \/ ageStr.s = <<>> THEN 9999
    ELSE IF ageStr.s = sJUSTNOW THEN 0
    ELSE IF MatchStarts(ageStr.s) # {} THEN ageOfMatch(ageStr.s, Least(MatchStarts(ageStr.s)))
    ELSE 9999

----------------------------------------------------------------------------
(* getOuraBodyStats: the VO2 part.  The script's answer either fails (the   *)
(* command or JSON.parse throws) or is an object whose vo2 and prevVo2 are  *)
(* missing or strings; the trends are written "up", "down" and "flat".      *)

\* parseInt(t) || 0 for a string or undefined: the leading digits, 0 without any
parseIntOrZero(v) ==
    IF v.kind # "string" \/ v.s = <<>> \/ ~IsDigit(v.s[1]) THEN 0
    ELSE parseInt(SubSeq(v.s, 1, DigitsEnd(v.s, 1)))

\* (data.vo2 || '').split('|')[0]
firstPart(v) ==
    IF v.kind # "string" THEN [kind |-> "string", s |-> <<>>]
    ELSE [kind |-> "string",
          s |-> SubSeq(v.s, 1, Least({Len(v.s) + 1} \cup {i \in 1..Len(v.s) : v.s[i] = "|"}) - 1)]

\* let vo2Trend = ''; if ... else if ... else ...
vo2Trend(currentVo2, prevVo2) ==
    IF currentVo2 > prevVo2 THEN <<"up">>
    ELSE IF currentVo2 < prevVo2 THEN <<"down">> ELSE <<"flat">>

\* the vo2 part of what getOuraBodyStats returns
getOuraBodyStats(out) ==
    IF out.kind = "fail" THEN OuraFailed.vo2
    ELSE [current |-> parseIntOrZero(firstPart(out.vo2)),
          previous |-> parseIntOrZero(out.prevVo2),
          trend |-> vo2Trend(parseIntOrZero(firstPart(out.vo2)), parseIntOrZero(out.prevVo2))]

----------------------------------------------------------------------------
(* getActiveAgents.  The command throws, or prints something JSON.parse     *)
(* rejects, or prints an object with its sessions; a session is given by    *)
(* its key and by the minutes since its update.                             *)

\* the type derived from the key
agentTypeOf(key) ==
    CASE key = "agent:main:cron:x" -> "cron"
      [] key = "agent:main:subagent:x" -> "subagent"
      [] key = "agent:main:main" -> "main"
      [] OTHER -> "unknown"

\* the callback of sessions.map, without the names and the token usage
agentOf(s) ==
    [key |-> s.key, agentType |-> agentTypeOf(s.key), ageMinutes |-> s.ageMinutes,
     isActive |-> s.ageMinutes < 30]

IsActiveAgent(a) == a.isActive
IsShownAgent(a) == a.isActive \/ a.agentType = "main" \/ a.agentType = "subagent"

getActiveAgents(out) ==
    IF out.kind \in {"throws", "garbage"} THEN [all |-> <<>>, active |-> <<>>, count |-> 1]
    ELSE [all |-> [i \in 1..Len(out.sessions) |-> agentOf(out.sessions[i])],
          active |-> SelectSeq([i \in 1..Len(out.sessions) |-> agentOf(out.sessions[i])],
                               IsShownAgent),
          count |-> Len(SelectSeq([i \in 1..Len(out.sessions) |-> agentOf(out.sessions[i])],
                                  IsActiveAgent))]

----------------------------------------------------------------------------
(* getAwaitingResponses.  The file is a sequence of lines, a line a         *)
(* sequence of tokens: the fixed texts the patterns look for, one token for *)
(* a date or a channel, and one token for each character of a title, a      *)
(* place or a status.  The empty sequence stands for null and for a field   *)
(* never set.                                                               *)

\* content.match(/## Active\s*([\s\S]*?)(?=## Closed|$)/)[1].split('\n'):
\* the lines after the first Active heading, up to the next Closed heading
activeLines(lines) ==
    IF Least({i \in 1..Len(lines) : lines[i] = <<"## Active">>}) = 0 THEN <<>>
    ELSE SubSeq(lines, Least({i \in 1..Len(lines) : lines[i] = <<"## Active">>}) + 1,
                Least({Len(lines) + 1}
                        \cup {j \in 1..Len(lines) :
                                 /\ j > Least({i \in 1..Len(lines) : lines[i] = <<"## Active">>})
                                 /\ lines[j] = <<"## Closed">>}) - 1)

\* line.match(/^- \[ \] \[([^\]]+)\] \[([^\]]+)\] (.+)/)
IsItemLine(line) ==
    /\ Len(line) >= 6
    /\ line[1] = "- [ ] ["
    /\ line[2] \notin {"] [", "] "}
    /\ line[3] = "] ["
    /\ line[4] \notin {"] [", "] "}
    /\ line[5] = "] "

\* the currentItem made from an item line
itemOf(line) ==
    [date |-> line[2], channel |-> line[4], title |-> SubSeq(line, 6, Min(Len(line), 85)),
     type |-> "awaiting", whereToCheck |-> <<>>, lastChecked |-> <<>>, status |-> <<>>]

\* line.replace(/.*Where to check:\s*/, '').trim()
whereOf(line) ==
    trim(SubSeq(line, Greatest({i \in 1..Len(line) : line[i] = "Where to check:"}) + 1, Len(line)))

\* where line.match(/\*\*Checked ([^*]+)\*\*:\s*(.+)/) starts, 0 without a match
CheckedAt(line) ==
    Least({i \in 1..(Len(line) - 4) :
              /\ line[i] = "**Checked"
              /\ line[i + 1] = " "
              /\ line[i + 2] \notin {"**:", "**Checked"}
              /\ line[i + 3] = "**:"
              /\ line[i + 3] = "**:"})

\* where (.+) starts after \s*: at the first token that is not a blank, or at
\* the last blank when only blanks follow
StatusAt(line) ==
    Least({Len(line)} \cup {j \in (CheckedAt(line) + 4)..Len(line) : line[j] # " "})

\* checkMatch[2].substring(0, 60)
statusOf(line) == SubSeq(line, StatusAt(line), Min(Len(line), StatusAt(line) + 59))

\* a variant of the loop body that keeps the first place found for an item
steppedFirstWins(st, line) ==
    IF IsItemLine(line) THEN [items |-> st.items \o st.cur, cur |-> <<itemOf(line)>>]
    ELSE IF st.cur # <<>> /\ includes(line, "Where to check:")
    THEN [st EXCEPT !.cur = <<[st.cur[1] EXCEPT
               !.whereToCheck = IF @ = <<>> THEN whereOf(line) ELSE @]>>]
    ELSE IF st.cur # <<>> /\ includes(line, "**Checked") /\ CheckedAt(line) # 0
    THEN [st EXCEPT !.cur = <<[st.cur[1] EXCEPT !.lastChecked = <<line[CheckedAt(line) + 2]>>,
                                                !.status = statusOf(line)]>>]
    ELSE st

\* the body of the loop for one line: the items pushed so far and currentItem,
\* kept as a sequence of at most one item
stepped(st, line) ==
    IF IsItemLine(line) THEN [items |-> st.items \o st.cur, cur |-> <<itemOf(line)>>]
    ELSE IF st.cur # <<>> /\ includes(line, "Where to check:")
    THEN [st EXCEPT !.cur = <<[st.cur[1] EXCEPT !.whereToCheck = whereOf(line)]>>]
    ELSE IF st.cur # <<>> /\ includes(line, "**Checked") /\ CheckedAt(line) # 0
    THEN [st EXCEPT !.cur = <<[st.cur[1] EXCEPT !.lastChecked = <<line[CheckedAt(line) + 2]>>,
                                                !.status = statusOf(line)]>>]
    ELSE st

RECURSIVE scanned(_, _)
scanned(st, lines) ==
    IF lines = <<>> THEN st ELSE scanned(stepped(st, lines[1]), SubSeq(lines, 2, Len(lines)))

\* what the try block of getAwaitingResponses returns for the file's lines
getAwaitingResponses(lines) ==
    scanned([items |-> <<>>, cur |-> <<>>], activeLines(lines)).items
        \o scanned([items |-> <<>>, cur |-> <<>>], activeLines(lines)).cur

----------------------------------------------------------------------------
(* Files and JSON values.  A file is missing, or holds text that JSON.parse  *)
(* rejects ("corrupt"), or holds a JSON value: null, a number, an array      *)
(* (its elements play no part and are left out; obj holds the named          *)
(* properties an in-memory array has been given) or an object obj.           *)

Missing == [kind |-> "missing"]
Corrupt == [kind |-> "corrupt"]
JsonNull == [kind |-> "null"]
JsonNumber == [kind |-> "number"]
JsonArray(props) == [kind |-> "array", obj |-> props]
JsonObject(o) == [kind |-> "object", obj |-> o]
NoState == [kind |-> "none"]

\* JSON.stringify(value, null, 2), as the file that then holds it: the named
\* properties of an array are not serialised
stringify(value) == IF value.kind = "array" THEN JsonArray(EmptyObj) ELSE value

----------------------------------------------------------------------------
(* Activity log *)

\* loadActivityLog: the parsed file, or [] when it is missing or unparseable
loadActivityLog(file) == IF file.kind = "array" THEN file.items ELSE <<>>

untrimmed(activities) == activities

\* activities.slice(0, MAX_ACTIVITY_ITEMS)
trimmed(activities) == slice0(activities, MAX_ACTIVITY_ITEMS)

\* saveActivityLog: the file after the call
saveActivityLog(file, activities, dry) ==
    IF dry THEN file ELSE [kind |-> "array", items |-> trimmed(activities)]

\* the array logActivity hands to saveActivityLog: the new entry unshifted onto the log
unshifted(file, entry) == <<entry>> \o loadActivityLog(file)

Entry(timestamp, action, details, source) ==
    [timestamp |-> timestamp, action |-> action, details |-> details, source |-> source]

\* the entry main logs for a run
UpdateEntry(in, now) ==
    Entry(now, <<"Dashboard updated">>,
          <<ToString(in.cronData.healthy), "/", ToString(in.cronData.total), " crons OK, ",
            ToString(Len(in.tasks)), " tasks, ", ToString(in.agentData.count), " agents">>,
          "system")

----------------------------------------------------------------------------
(* updateStateFile and the extra-data save of main *)

\* JSON.parse(fs.readFileSync(statePath)) inside try/catch, over let state = {}
parsedState(file) ==
    IF file.kind \in {"missing", "corrupt"} THEN JsonObject(EmptyObj) ELSE file

\* a variant that also throws on the empty object of a first run
stateThrowsOnFresh(state) ==
    state.kind \in {"null", "number"} \/ (state.kind = "object" /\ state.obj = EmptyObj)

\* the property writes of updateStateFile throw a TypeError: on null at
\* state.lastUpdated, on a primitive at state.health.crons (state.health is undefined)
stateThrows(state) == state.kind \in {"null", "number"}

stateCrons(crons) ==
    [i \in 1..Len(crons) |->
        [name |-> crons[i].name, schedule |-> Or(crons[i].next, crons[i].schedule),
         health |-> IF crons[i].status = "error" THEN "error" ELSE "ok",
         lastRun |-> crons[i].last,
         error |-> IF crons[i].status = "error" THEN "See cron logs" ELSE "null"]]

stateAgents(active) ==
    [i \in 1..Len(active) |->
        [key |-> active[i].key, name |-> active[i].agentName, type |-> active[i].agentType,
         age |-> active[i].age, isActive |-> active[i].isActive]]

stateActiveWork(tasks) ==
    [i \in 1..Len(slice0(tasks, 5)) |->
        [id |-> tasks[i].uuid, title |-> tasks[i].title, status |-> "waiting",
         project |-> AreaOrProject(tasks[i]), progress |-> 50]]

healthCrons(cronData) ==
    [healthy |-> cronData.healthy, total |-> cronData.total,
     status |-> IF Len(cronData.errors) > 0 THEN "warning" ELSE "ok"]

healthAgents(agentData) == [active |-> agentData.count, idle |-> 0, status |-> "ok"]

\* state.k || {}
OrEmpty(obj, k) == IF Has(obj, k) THEN obj[k] ELSE EmptyObj

\* a variant that builds health and stats afresh
mergedStateWholesale(state, in, now) ==
    LET health == [crons |-> healthCrons(in.cronData), agents |-> healthAgents(in.agentData),
                   active |-> Len(in.tasks), blocked |-> Len(in.cronData.errors)]
        o1 == Put(state.obj, "lastUpdated", now)
        o2 == Put(o1, "health", health)
        o3 == Put(o2, "crons", stateCrons(in.cronData.crons))
        o4 == Put(o3, "agents", stateAgents(in.agentData.active))
        o5 == Put(o4, "activeWork", stateActiveWork(in.tasks))
    IN [state EXCEPT !.obj = Put(o5, "stats", [cronJobsTotal |-> in.cronData.total])]

\* the property writes of updateStateFile on a parsed state that is an object or an array
mergedState(state, in, now) ==
    LET h0 == OrEmpty(state.obj, "health")
        h1 == Put(h0, "crons", healthCrons(in.cronData))
        h2 == Put(h1, "agents", healthAgents(in.agentData))
        h3 == Put(h2, "active", Len(in.tasks))
        h4 == Put(h3, "blocked", Len(in.cronData.errors))
        o1 == Put(state.obj, "lastUpdated", now)
        o2 == Put(o1, "health", h4)
        o3 == Put(o2, "crons", stateCrons(in.cronData.crons))
        o4 == Put(o3, "agents", stateAgents(in.agentData.active))
        o5 == Put(o4, "activeWork", stateActiveWork(in.tasks))
        stats == Put(OrEmpty(o5, "stats"), "cronJobsTotal", in.cronData.total)
    IN [state EXCEPT !.obj = Put(o5, "stats", stats)]

\* updateStateFile's write: the file after the call
stateWritten(file, state, dry) == IF dry THEN file ELSE stringify(state)

\* main's extra-data save, inside its try: what it writes over the file it read
\* (the caller handles a missing or unparseable file and null, which throw)
extraSaved(file, in) ==
    IF file.kind = "number" THEN file
    ELSE LET o1 == Put(file.obj, "lifeOS", in.lifeOSData)
             o2 == Put(o1, "taskCounts", in.taskCounts)
             o3 == Put(o2, "systemStatus", in.systemStatus)
             o4 == Put(o3, "needsYouItems", in.needsYouItems)
             o5 == Put(o4, "awaitingResponses", in.awaitingResponses)
         IN stringify([file EXCEPT !.obj = o5])

\* what updateDashboardHTML is called with and reads, in the current state
CtxNow == Ctx(mem.obj, inp, loadActivityLog(files.activity), clock)

\* updateDashboardHTML's write: the file after the call
htmlWrittenAlways(file, html, dry) == [kind |-> "file", doc |-> html]

htmlWritten(file, html, dry) == IF dry THEN file ELSE [kind |-> "file", doc |-> html]

----------------------------------------------------------------------------
(* Which blocks the insert branches of a pass put into the buffer *)

InsertedBlocks(h, c) ==
    {b \in {"Active Agents", "Activity Log"} :
        ~includes(Before7(h, c), b) /\ includes(Rule7(Before7(h, c), c), b)}
    \cup {b \in {QACARD} : ~includes(Before7c(h, c), b) /\ includes(Before7d(h, c), b)}
    \cup {b \in {SYSCARD} : ~includes(Before7d(h, c), b) /\ includes(Rule7d(Before7d(h, c), c), b)}
    \cup {b \in {ROCKSCARD} : ~includes(Before9(h, c), b) /\ includes(Rule9(Before9(h, c), c), b)}

----------------------------------------------------------------------------
(* SpecPatch: updateDashboardHTML applied again and again to one document,  *)
(* in live mode, with the input data, the activity log, the snapshot and    *)
(* the clock held constant.                                                 *)

NeedItem(title) ==
    [type |-> <<"task">>, title |-> title, context |-> NoText, description |-> title,
     priority |-> NoText, source |-> NoText, project |-> NoText]

NeedThree == <<NeedItem(<<"x">>), NeedItem(<<"y">>), NeedItem(<<"z">>)>>

\* a prior item whose title is the pattern of the whole match
NeedDollar == <<NeedItem(<<"$", "&">>)>>

LogOne == [kind |-> "array",
           items |-> <<Entry(0, <<"Dashboard updated">>, <<"0", "/", "0", " crons OK">>, "system")>>]
LogMarkup == [kind |-> "array", items |-> <<Entry(0, TextX, TextX, "hal")>>]

InitPatch ==
    /\ \E d \in Docs, log \in {Missing, LogOne, LogMarkup} :
         files = [html |-> [kind |-> "file", doc |-> d],
                  state |-> Missing,
                  activity |-> log]
    /\ inp \in Inputs
    /\ mem \in {JsonObject(EmptyObj), JsonObject([needsJordan |-> <<NeedItem(TextX)>>]),
                JsonObject([needsJordan |-> NeedThree]),
                JsonObject([needsJordan |-> NeedDollar])}
    /\ clock = 1
    /\ dryRun = FALSE
    /\ pc = "patch"
    /\ buf = <<>>
    /\ err = "none"
    /\ start = files
    /\ prev = <<>>
    /\ dryResult = NoState
    /\ writes = <<>>
    /\ passes = 0
    /\ appended = <<>>
    /\ inserted = <<>>
    /\ arg = NoState
    /\ res = NoState

PatchPass ==
    /\ UNCHANGED <<arg, res>>
    /\ passes < MaxPasses
    /\ \E h \in {PatchedHTML(files.html.doc, CtxNow)} :
          /\ buf' = h
          /\ files' = [files EXCEPT !.html = htmlWritten(@, h, dryRun)]
    /\ prev' = files.html.doc
    /\ inserted' = Append(inserted, InsertedBlocks(files.html.doc, CtxNow))
    /\ passes' = passes + 1
    /\ UNCHANGED <<inp, clock, dryRun, pc, mem, err, start, dryResult, writes, appended>>

SpecPatch == InitPatch /\ [][PatchPass]_vars

----------------------------------------------------------------------------
(* SpecLog: logActivity called again and again in live mode *)

\* a persisted log of n entries, newest first, all older than the clock's first reading
OldLog(n) == [kind |-> "array",
              items |-> [i \in 1..n |-> Entry(0 - i, <<"old">>, NoText, "hal")]]

\* the entry of the append made at the current reading of the clock
LogEntry == Entry(clock, <<"Dashboard updated">>, NoText, "system")

InitLog ==
    /\ \E log \in {Missing, Corrupt, OldLog(0), OldLog(1), OldLog(MAX_ACTIVITY_ITEMS)} :
         files = [html |-> Missing, state |-> Missing, activity |-> log]
    /\ inp = InputNone
    /\ mem = NoState
    /\ clock = 1
    /\ dryRun = FALSE
    /\ pc = "log"
    /\ buf = <<>>
    /\ err = "none"
    /\ start = files
    /\ prev = <<>>
    /\ dryResult = NoState
    /\ writes = <<>>
    /\ passes = 0
    /\ appended = <<>>
    /\ inserted = <<>>
    /\ arg = NoState
    /\ res = NoState

\* logActivity(action, details, source): fs.writeFileSync succeeds, or throws
LogAppend ==
    /\ UNCHANGED <<arg, res>>
    /\ clock <= MaxAppends
    /\ \E ok \in {TRUE} \cup {x \in {FALSE} : Len(writes) < MaxFails} :
         IF ok
         THEN /\ files' = [files EXCEPT
                             !.activity = saveActivityLog(@, unshifted(@, LogEntry), dryRun)]
              /\ appended' = <<LogEntry>> \o appended
              /\ err' = "none"
              /\ writes' = writes
         ELSE /\ err' = "write"
              /\ writes' = Append(writes, [file |-> "activity", ok |-> FALSE])
              /\ UNCHANGED <<files, appended>>
    /\ clock' = clock + 1
    /\ UNCHANGED <<inp, dryRun, pc, mem, buf, start, prev, dryResult, passes, inserted>>

SpecLog == InitLog /\ [][LogAppend]_vars

----------------------------------------------------------------------------
(* Spec: runs of main(), dry or live, one after the other *)

PriorState ==
    [custom |-> "kept",
     lastUpdated |-> 0,
     health |-> [note |-> "kept", blocked |-> 7],
     stats |-> [runs |-> 7, cronJobsTotal |-> 9],
     lifeOS |-> [old |-> 1],
     needsJordan |-> <<NeedItem(TextA)>>]

Init ==
    /\ \E h \in {[kind |-> "file", doc |-> Doc0], Missing},
          s \in {Missing, Corrupt, JsonNull, JsonNumber, JsonArray(EmptyObj),
                 JsonObject(PriorState)},
          log \in {Missing, LogOne} :
         files = [html |-> h, state |-> s, activity |-> log]
    /\ inp \in {InputPlain, InputNone}
    /\ mem = NoState
    /\ clock = 1
    /\ dryRun = FALSE
    /\ pc = "idle"
    /\ buf = <<>>
    /\ err = "none"
    /\ start = files
    /\ prev = <<>>
    /\ dryResult = NoState
    /\ writes = <<>>
    /\ passes = 0
    /\ appended = <<>>
    /\ inserted = <<>>
    /\ arg = NoState
    /\ res = NoState

\* node update-dashboard.js [--dry-run]
StartRun ==
    /\ UNCHANGED <<arg, res>>
    /\ pc \in {"idle", "done", "crashed"}
    /\ passes < MaxRuns
    /\ passes' = passes + 1
    /\ dryRun' \in BOOLEAN
    /\ \E tick \in 0..(IF pc = "idle" \/ clock > MaxTicks THEN 0 ELSE 1) : clock' = clock + tick
    /\ pc' = "log"
    /\ start' = files
    /\ writes' = <<>>
    /\ err' = "none"
    /\ mem' = NoState
    /\ buf' = <<>>
    /\ UNCHANGED <<files, inp, prev, dryResult, appended, inserted>>

\* main: if (!DRY_RUN) logActivity('Dashboard updated', ...)
LogStep ==
    /\ UNCHANGED <<arg, res>>
    /\ pc = "log"
    /\ IF dryRun
       THEN /\ pc' = "state"
            /\ UNCHANGED <<files, writes, err, appended>>
       ELSE \E ok \in BOOLEAN :
              /\ writes' = Append(writes, [file |-> "activity", ok |-> ok])
              /\ IF ok
                 THEN /\ files' = [files EXCEPT
                             !.activity = saveActivityLog(@, unshifted(@, UpdateEntry(inp, clock)),
                                                          dryRun)]
                      /\ appended' = <<UpdateEntry(inp, clock)>> \o appended
                      /\ pc' = "state"
                      /\ err' = err
                 ELSE /\ pc' = "crashed"
                      /\ err' = "write"
                      /\ UNCHANGED <<files, appended>>
    /\ UNCHANGED <<inp, clock, dryRun, mem, buf, start, prev, dryResult, passes, inserted>>

\* main: const state = updateStateFile(cronData, tasks, agentData)
StateStep ==
    /\ UNCHANGED <<arg, res>>
    /\ pc = "state"
    /\ LET state == parsedState(files.state) IN
       IF stateThrows(state)
       THEN /\ pc' = "crashed"
            /\ err' = "TypeError"
            /\ UNCHANGED <<files, mem, writes>>
       ELSE LET merged == mergedState(state, inp, clock) IN
            IF dryRun
            THEN /\ files' = [files EXCEPT !.state = stateWritten(@, merged, dryRun)]
                 /\ mem' = merged
                 /\ pc' = "html"
                 /\ UNCHANGED <<err, writes>>
            ELSE \E ok \in BOOLEAN :
                   /\ writes' = Append(writes, [file |-> "state", ok |-> ok])
                   /\ IF ok
                      THEN /\ files' = [files EXCEPT !.state = stateWritten(@, merged, dryRun)]
                           /\ mem' = merged
                           /\ pc' = "html"
                           /\ err' = err
                      ELSE /\ pc' = "crashed"
                           /\ err' = "write"
                           /\ UNCHANGED <<files, mem>>
    /\ UNCHANGED <<inp, clock, dryRun, buf, start, prev, dryResult, passes, appended, inserted>>

\* main: updateDashboardHTML(state, cronData, tasks, agentData, ouraData, lifeOSData,
\* taskCounts, extraData); a dry run ends here
HtmlStep ==
    /\ UNCHANGED <<arg, res>>
    /\ pc = "html"
    /\ IF files.html.kind = "missing"
       THEN /\ pc' = "crashed"
            /\ err' = "ENOENT"
            /\ UNCHANGED <<files, buf, writes, dryResult>>
       ELSE \E h \in {PatchedHTML(files.html.doc, CtxNow)} :
               /\ buf' = h
               /\ IF dryRun
                  THEN /\ files' = [files EXCEPT !.html = htmlWritten(@, h, dryRun)]
                       /\ dryResult' = [kind |-> "dry", files |-> start, clock |-> clock,
                                       buf |-> h, mem |-> mem]
                       /\ pc' = "done"
                       /\ UNCHANGED <<err, writes>>
                  ELSE \E ok \in BOOLEAN :
                         /\ writes' = Append(writes, [file |-> "html", ok |-> ok])
                         /\ dryResult' = dryResult
                         /\ IF ok
                            THEN /\ files' = [files EXCEPT !.html = htmlWritten(@, h, dryRun)]
                                 /\ pc' = "extra"
                                 /\ err' = err
                            ELSE /\ pc' = "crashed"
                                 /\ err' = "write"
                                 /\ files' = files
    /\ UNCHANGED <<inp, clock, dryRun, mem, start, prev, passes, appended, inserted>>

\* main: the extra-data save, whose try/catch logs every failure and goes on
ExtraStep ==
    /\ UNCHANGED <<arg, res>>
    /\ pc = "extra"
    /\ IF files.state.kind \in {"missing", "corrupt", "null"}
       THEN UNCHANGED <<files, writes>>
       ELSE \E ok \in BOOLEAN :
              /\ writes' = Append(writes, [file |-> "state", ok |-> ok])
              /\ files' = IF ok THEN [files EXCEPT !.state = extraSaved(@, inp)] ELSE files
    /\ pc' = "done"
    /\ UNCHANGED <<inp, clock, dryRun, mem, buf, err, start, prev, dryResult, passes, appended,
                   inserted>>

Next == StartRun \/ LogStep \/ StateStep \/ HtmlStep \/ ExtraStep

Spec == Init /\ [][Next]_vars

----------------------------------------------------------------------------
(* SpecDegraded: runs of main() over files that are in order, with none,   *)
(* one or all of the data providers failing                                *)

FailSets == {{}, Providers} \cup {{p} : p \in Providers}

InitDegraded ==
    /\ files = [html |-> [kind |-> "file", doc |-> Doc0], state |-> Missing, activity |-> Missing]
    /\ \E failed \in FailSets : inp = Collected(failed)
    /\ mem = NoState
    /\ clock = 1
    /\ dryRun = FALSE
    /\ pc = "idle"
    /\ buf = <<>>
    /\ err = "none"
    /\ start = files
    /\ prev = <<>>
    /\ dryResult = NoState
    /\ writes = <<>>
    /\ passes = 0
    /\ appended = <<>>
    /\ inserted = <<>>
    /\ arg = NoState
    /\ res = NoState

SpecDegraded == InitDegraded /\ [][Next]_vars

----------------------------------------------------------------------------
(* SpecParse: one call of one of the parsing functions on an input drawn   *)
(* from a bounded set                                                      *)

\* the rows of a rocks table, by number and done mark
RockRows == [number : {1, 3, 4, 6, 7, 9}, done : BOOLEAN]

RockLists == UNION {[1..n -> RockRows] : n \in 0..MaxRocks}

Calls == {[fn |-> "lifeProgress", x |-> rocks] : rocks \in RockLists}

\* a line of the scheduler's report: six columns of fixed width
Pad(t, w) == t \o [i \in 1..(w - Len(t)) |-> " "]
ReportLine(id, name, last, status) ==
    Pad(id, 37) \o Pad(name, 24) \o Pad(<<"*">>, 33) \o Pad(<<"1", "h">>, 11)
        \o Pad(last, 11) \o Pad(status, 10)

ReportHeader == ReportLine(<<"I", "D">>, <<"N", "a", "m", "e">>, <<"L", "a", "s", "t">>,
                           <<"S", "t", "a", "t", "u", "s">>)
sAGO == <<"2", "h", " ", "a", "g", "o">>
sPAUSED == <<"p", "a", "u", "s", "e", "d">>
LineError == ReportLine(<<"c", "1">>, <<"e">>, sNEVER, <<"E", "R", "R", "O", "R">>)
LineErrorRan == ReportLine(<<"c", "2">>, <<"f">>, sAGO, sERROR)
LineRunning == ReportLine(<<"c", "3">>, <<"r">>, sDASH, sRUNNING)
LineIdleNever == ReportLine(<<"c", "4">>, <<"i">>, sNEVER, sIDLE)
LineBlankNever == ReportLine(<<"c", "5">>, <<"b">>, sNEVER, <<>>)
LineOk == ReportLine(<<"c", "6">>, <<"o">>, sAGO, <<"O", "k">>)
LinePaused == ReportLine(<<"c", "7">>, <<"p">>, sAGO, sPAUSED)
LineNoName == ReportLine(<<"c", "8">>, <<>>, sAGO, sOK)
LineNoId == ReportLine(<<>>, <<"n">>, sAGO, sOK)
ReportLines == {LineError, LineErrorRan, LineRunning, LineIdleNever, LineBlankNever,
                LineOk, LinePaused, LineNoName, LineNoId}
Reports == {<<ReportHeader>> \o rows : rows \in UNION {[1..n -> ReportLines] : n \in 0..MaxRows}}

CronCalls == {[fn |-> f, x |-> out] : f \in {"getCronDetailedStatus", "getCronStatus"},
                                      out \in Reports}

AgeChars == {"1", "2", "m", "h", "d", " "}
AgeTexts ==
    UNION {[1..n -> AgeChars] : n \in 0..MaxAgeLen}
        \cup {sJUSTNOW, <<"5", "m">>, <<"2", "h", " ", "a", "g", "o">>,
              <<"1", "d", " ", "a", "g", "o">>, <<"1", "2", "d", " ", "a", "g", "o">>,
              <<"g", "a", "r", "b", "a", "g", "e">>, <<"5", "m", "i", "n">>,
              <<"1", "0", "m">>}
AgeCalls == {[fn |-> "parseAge", x |-> [kind |-> "undefined"]]}
                \cup {[fn |-> "parseAge", x |-> [kind |-> "string", s |-> t]] : t \in AgeTexts}

\* the lines of life-vto.md: headings of four levels, table rows, text
LineH1 == <<"#", " ", "X">>
LineH2 == <<"#", "#", " ", "X">>
LineH3 == <<"#", "#", "#", " ", "8. X">>
LineH4 == <<"#", "#", "#", "#", " ", "X">>
LineRocks == <<"#", "#", "#", " ", "6. ROCKS">>
LineScorecard == <<"#", "#", "#", " ", "7. WEEKLY SCORECARD">>
LineRock == <<"|", " ", "1", " ", "|", " ", "d", " ", "|", " ", "o", " ", "|", " ", "yes", " ", "|">>
LineMetric == <<"|", " ", "m", " ", "|", " ", "t", " ", "|", " ", "a", " ", "|">>
LineText == <<"x">>
VtoLines == {LineH1, LineH2, LineH3, LineH4, LineRocks, LineScorecard, LineRock, LineMetric,
             LineText}

\* lines.join('\n')
RECURSIVE joined(_)
joined(lines) ==
    IF Len(lines) = 0 THEN <<>>
    ELSE IF Len(lines) = 1 THEN lines[1]
    ELSE lines[1] \o <<"\n">> \o joined(SubSeq(lines, 2, Len(lines)))

VtoCalls ==
    {[fn |-> "lifeSections", x |-> lines] :
        lines \in UNION {[1..n -> VtoLines] : n \in 0..MaxLines}}

\* the lines of awaiting-responses.md
Chars(c, n) == [i \in 1..n |-> c]
LineActive == <<"## Active">>
LineClosed == <<"## Closed">>
LineItemA == <<"- [ ] [", "d1", "] [", "c1", "] ", "a">>
LineItemB == <<"- [ ] [", "d2", "] [", "c2", "] ", "b", "b">>
LineWhere1 == <<"  ", "Where to check:", " ", "p">>
LineWhere2 == <<"  ", "Where to check:", " ", "q", " ">>
LineChecked1 == <<"  ", "**Checked", " ", "d3", "**:", " ", "s">>
LineChecked2 == <<"  ", "**Checked", " ", "d4", "**:", " ", "t">>
LineNote == <<"x">>
LineItemLong == <<"- [ ] [", "d1", "] [", "c1", "] ">> \o Chars("a", 81)
LineCheckedLong == <<"**Checked", " ", "d3", "**:">> \o Chars("s", 61)
AwaitingLines == {LineActive, LineClosed, LineItemA, LineItemB, LineWhere1, LineWhere2,
                  LineChecked1, LineChecked2, LineNote}
AwaitingCalls ==
    {[fn |-> "getAwaitingResponses", x |-> lines] :
        lines \in UNION {[1..n -> AwaitingLines] : n \in 0..MaxLines}
                    \cup {<<LineActive, LineItemLong, LineCheckedLong>>}}

\* the answers of the Oura script
Vo2Fields ==
    {[kind |-> "undefined"]}
        \cup {[kind |-> "string", s |-> t] :
                 t \in UNION {[1..n -> {"3", "7", "|", "x"}] : n \in 0..MaxVo2Len}}
OuraCalls ==
    {[fn |-> "getOuraBodyStats", x |-> [kind |-> "fail"]]}
        \cup {[fn |-> "getOuraBodyStats", x |-> [kind |-> "data", vo2 |-> v, prevVo2 |-> p]] :
                 v \in Vo2Fields, p \in Vo2Fields}

\* the answers of the session list
SessionRows == [key : {"agent:main:main", "agent:main:cron:x", "agent:main:subagent:x"},
                ageMinutes : {0, 29, 30}]
AgentCalls ==
    {[fn |-> "getActiveAgents", x |-> [kind |-> k]] : k \in {"throws", "garbage"}}
        \cup {[fn |-> "getActiveAgents", x |-> [kind |-> "data", sessions |-> ss]] :
                 ss \in UNION {[1..n -> SessionRows] : n \in 0..MaxSessions}}

InitParse ==
    /\ \/ arg \in Calls
       \/ arg \in AgentCalls
       \/ arg \in OuraCalls
       \/ arg \in AwaitingCalls
       \/ arg \in VtoCalls
       \/ arg \in CronCalls
       \/ arg \in AgeCalls
    /\ res = NoState
    /\ pc = "call"
    /\ files = [html |-> Missing, state |-> Missing, activity |-> Missing]
    /\ inp = InputNone
    /\ mem = NoState
    /\ clock = 1
    /\ dryRun = FALSE
    /\ buf = <<>>
    /\ err = "none"
    /\ start = files
    /\ prev = <<>>
    /\ dryResult = NoState
    /\ writes = <<>>
    /\ passes = 0
    /\ appended = <<>>
    /\ inserted = <<>>

Unused == <<files, inp, clock, dryRun, mem, buf, err, start, prev, dryResult, writes, passes,
            appended, inserted>>

\* getLifeOSData, from the parsed rocks on
LifeProgressCall ==
    /\ pc = "call"
    /\ arg.fn = "lifeProgress"
    /\ res' = lifeProgress(arg.x)
    /\ pc' = "ret"
    /\ UNCHANGED <<arg, Unused>>

\* one call of getCronDetailedStatus whose command printed arg.x
CronDetailedStatusCall ==
    /\ pc = "call"
    /\ arg.fn = "getCronDetailedStatus"
    /\ res' = getCronDetailedStatus(arg.x)
    /\ pc' = "ret"
    /\ UNCHANGED <<arg, Unused>>

\* one call of getCronStatus whose command printed arg.x
CronStatusCall ==
    /\ pc = "call"
    /\ arg.fn = "getCronStatus"
    /\ res' = getCronStatus(arg.x)
    /\ pc' = "ret"
    /\ UNCHANGED <<arg, Unused>>

\* one call of parseAge
ParseAgeCall ==
    /\ pc = "call"
    /\ arg.fn = "parseAge"
    /\ res' = parseAge(arg.x)
    /\ pc' = "ret"
    /\ UNCHANGED <<arg, Unused>>

\* the part of getLifeOSData that reads the two tables of the file whose
\* lines are arg.x
LifeSectionsCall ==
    /\ pc = "call"
    /\ arg.fn = "lifeSections"
    /\ res' = lifeSections(joined(arg.x))
    /\ pc' = "ret"
    /\ UNCHANGED <<arg, Unused>>

\* one call of getAwaitingResponses that read the lines arg.x
AwaitingResponsesCall ==
    /\ pc = "call"
    /\ arg.fn = "getAwaitingResponses"
    /\ res' = getAwaitingResponses(arg.x)
    /\ pc' = "ret"
    /\ UNCHANGED <<arg, Unused>>

\* one call of getOuraBodyStats whose script answered arg.x
OuraBodyStatsCall ==
    /\ pc = "call"
    /\ arg.fn = "getOuraBodyStats"
    /\ res' = getOuraBodyStats(arg.x)
    /\ pc' = "ret"
    /\ UNCHANGED <<arg, Unused>>

\* one call of getActiveAgents whose command answered arg.x
ActiveAgentsCall ==
    /\ pc = "call"
    /\ arg.fn = "getActiveAgents"
    /\ res' = getActiveAgents(arg.x)
    /\ pc' = "ret"
    /\ UNCHANGED <<arg, Unused>>

NextParse ==
    \/ ActiveAgentsCall
    \/ OuraBodyStatsCall
    \/ AwaitingResponsesCall
    \/ LifeProgressCall
    \/ CronDetailedStatusCall
    \/ CronStatusCall
    \/ ParseAgeCall
    \/ LifeSectionsCall

SpecParse == InitParse /\ [][NextParse]_vars

----------------------------------------------------------------------------
(* Properties of the patcher (SpecPatch) *)

\* C1: with the input data, the activity log, the snapshot and the clock held
\* constant, a pass over the output of the previous pass returns that
\* document unchanged
C1_SecondPassIsNoOp == passes >= 2 => buf = prev

\* the blocks an insert branch of rules 7, 7c, 7d and 9 may add, by their marker
InsertableBlocks == {"Active Agents", "Activity Log", QACARD, SYSCARD, ROCKSCARD}

\* C2: after any number of passes the document holds at most one copy of each
\* insertable block, and no pass inserts a block that an earlier pass inserted
C2_InsertedOnce ==
    /\ \A b \in InsertableBlocks : Count(buf, b) <= 1
    /\ \A i \in 1..Len(inserted) : \A j \in (i + 1)..Len(inserted) :
          inserted[i] \cap inserted[j] = {}

\* no raw '<', '>' or '"', and every '&' begins one of the four entities
IsEscaped(d) ==
    \A i \in 1..Len(d) :
       /\ d[i] \notin {"<", ">", "\""}
       /\ d[i] = "&" => \E e \in {AMP, LT, GT, QUOT} : IsAt(d, i, e)

\* C3: escapeHtml's output holds no raw '<', '>' or '"' and each '&' of it
\* begins an entity, and the document a live pass renders from source texts
\* holding all four characters holds them only in that escaped form
C3_RenderedTextEscaped ==
    /\ \A t \in {NoText, TextA, TextX, TextD, AMP} : IsEscaped(escapeHtml(t))
    /\ passes > 0 => IsEscaped(buf)

\* a pass has rendered a task title, a cron name and an activity action that
\* hold the four characters
C3_Witness ==
    /\ passes > 0
    /\ inp = InputMarkup
    /\ files.activity = LogMarkup
    /\ \E i \in 1..Len(buf) : IsAt(buf, i, <<"<div class=work-title>">> \o escapeHtml(TextX))
    /\ \E i \in 1..Len(buf) : IsAt(buf, i, <<"<span class=cron-name>">> \o escapeHtml(TextX))
    /\ \E i \in 1..Len(buf) : IsAt(buf, i, <<"<h4>">> \o escapeHtml(TextX))

\* none of the atoms of S occurs in the document
Lacks(h, S) == \A a \in S : ~includes(h, a)

\* each rule, applied to a document in which its anchor (and its insertion
\* anchor, if it has one) does not occur, returns the document
SkipsWithoutAnchor(h, c) ==
    /\ Lacks(h, {"Updated: "}) => Rule1(h, c) = h
    /\ Lacks(h, {"Crons OK", "Agents", "Tasks", "Blocked"}) => Rule2(h, c) = h
    /\ Lacks(h, {HVRES[x] : x \in DOMAIN HVRES}) => Resilience(h, c) = h
    /\ Lacks(h, {HVSTRESS[x] : x \in DOMAIN HVSTRESS}) => Stress(h, c) = h
    /\ Lacks(h, {HVVO2}) => Vo2(h, c) = h
    /\ Lacks(h, {"NEEDS YOU"}) => Rule3(h, c) = h
    /\ Lacks(h, {"Cron Jobs"}) => Rule4(h, c) = h
    /\ Lacks(h, {CRONGRID}) => (Rule5(h, c) = h /\ Rule7e(h, c) = h)
    /\ Lacks(h, {"Active Work"}) => Rule6(h, c) = h
    /\ Lacks(h, {"Active Agents", CARDWIDE}) => Rule7(h, c) = h
    /\ Lacks(h, {NJCARD}) => Rule7b(h, c) = h
    /\ Lacks(h, {QACARD, "System Health"}) => Rule7c(h, c) = h
    /\ Lacks(h, {SYSCARD, "Active Work"}) => Rule7d(h, c) = h
    /\ Lacks(h, {FILL[g] : g \in {"income", "body", "love", "freedom", "joy"}}) => Rule8(h, c) = h
    /\ Lacks(h, {ROCKSCARD, GOALSEND, LIFEOSVIEW}) => Rule9(h, c) = h
    /\ Lacks(h, {SCORECARD}) => Rule10(h, c) = h

\* C12: a rule whose anchors do not occur in the document a pass read, or in
\* the document it produced, returns that document unchanged; the pass ends
\* in no exception, and a rule after a skipped one still takes effect (the
\* system-status panel is inserted where the quick-actions panel could not be)
C12_MissingAnchorSkipsRule ==
    passes > 0 =>
       /\ SkipsWithoutAnchor(prev, CtxNow)
       /\ SkipsWithoutAnchor(buf, CtxNow)
       /\ err = "none"
       /\ (Lacks(prev, {QACARD, "System Health"}) /\ includes(prev, "Active Work"))
             => (includes(buf, SYSCARD) /\ ~includes(buf, QACARD))

\* a pass over the drifted document has skipped the quick-actions rule and
\* the rules of the cards that are gone, and applied the rules that follow
C12_Witness ==
    /\ passes > 0
    /\ start.html.doc = DocDrift
    /\ Lacks(prev, {QACARD, "System Health", "Cron Jobs", CRONGRID, NJCARD, SCORECARD})
    /\ ~includes(buf, QACARD)
    /\ includes(buf, SYSCARD)
    /\ buf # prev

----------------------------------------------------------------------------
(* Properties of the activity log (SpecLog) *)

\* C4: the persisted log never holds more than MAX_ACTIVITY_ITEMS entries, it
\* holds the appended entries newest first ahead of the entries it started
\* with, and after more than MAX_ACTIVITY_ITEMS appends it is exactly the
\* MAX_ACTIVITY_ITEMS most recently appended entries
C4_LogBoundedNewestFirst ==
    /\ Len(loadActivityLog(files.activity)) <= MAX_ACTIVITY_ITEMS
    /\ \A i \in 1..(Len(loadActivityLog(files.activity)) - 1) :
          loadActivityLog(files.activity)[i].timestamp
            > loadActivityLog(files.activity)[i + 1].timestamp
    /\ Len(appended) > 0 =>
          loadActivityLog(files.activity)
            = slice0(appended \o loadActivityLog(start.activity), MAX_ACTIVITY_ITEMS)
    /\ Len(appended) > MAX_ACTIVITY_ITEMS =>
          loadActivityLog(files.activity) = SubSeq(appended, 1, MAX_ACTIVITY_ITEMS)

\* more than MAX_ACTIVITY_ITEMS appends have been made and the oldest of them is gone
C4_Witness ==
    /\ Len(appended) > MAX_ACTIVITY_ITEMS
    /\ Len(loadActivityLog(files.activity)) = MAX_ACTIVITY_ITEMS
    /\ \A i \in 1..Len(loadActivityLog(files.activity)) :
          loadActivityLog(files.activity)[i] # appended[Len(appended)]

----------------------------------------------------------------------------
(* Properties of a run of main() (Spec) *)

AllWritesOk == \A i \in 1..Len(writes) : writes[i].ok

\* C5: a dry run that completes leaves the three files as they were when it started
C5_DryRunWritesNothing == (dryRun /\ pc = "done") => files = start

\* a dry run has completed whose buffer differs from the document on disk
C5_Witness ==
    /\ dryRun
    /\ pc = "done"
    /\ start.html.kind = "file"
    /\ buf # start.html.doc
    /\ mem.kind = "object"
    /\ mem # start.state

\* C6: a live run started from the files, the adapter outputs and the clock a
\* dry run started from has the buffer and the merged snapshot of that dry run
C6_DryComputesWhatLiveComputes ==
    (/\ ~dryRun
     /\ pc \in {"extra", "done"}
     /\ dryResult.kind = "dry"
     /\ dryResult.files = start
     /\ dryResult.clock = clock)
    => (buf = dryResult.buf /\ mem = dryResult.mem)

\* C7: when a run has ended, the log is the log the run started from with the
\* run's entry ahead of it if the run was live and completed, and the log the
\* run started from otherwise
C7_OneEntryPerCompletedLiveRun ==
    pc \in {"done", "crashed"} =>
       loadActivityLog(files.activity)
         = IF ~dryRun /\ pc = "done"
           THEN slice0(<<UpdateEntry(inp, clock)>> \o loadActivityLog(start.activity),
                       MAX_ACTIVITY_ITEMS)
           ELSE loadActivityLog(start.activity)

\* C8: a run started from a snapshot file that is missing, unparseable or not
\* an object raises no TypeError, merges into the empty object, and, live and
\* with every write succeeding, ends with a snapshot file that holds an object
C8_BadSnapshotLoadsEmpty ==
    start.state.kind # "object" =>
       /\ err # "TypeError"
       /\ pc \in {"html", "extra", "done"} => mem = mergedState(JsonObject(EmptyObj), inp, clock)
       /\ (pc = "done" /\ ~dryRun /\ AllWritesOk) => files.state.kind = "object"

\* the keys updateStateFile builds afresh, with their values
FreshByUpdate(in, now) ==
    [lastUpdated |-> now, crons |-> stateCrons(in.cronData.crons),
     agents |-> stateAgents(in.agentData.active), activeWork |-> stateActiveWork(in.tasks)]

\* the keys the extra-data save builds afresh, with their values
FreshByExtra(in) ==
    [lifeOS |-> in.lifeOSData, taskCounts |-> in.taskCounts, systemStatus |-> in.systemStatus,
     needsYouItems |-> in.needsYouItems, awaitingResponses |-> in.awaitingResponses]

FreshHealth(in) ==
    [crons |-> healthCrons(in.cronData), agents |-> healthAgents(in.agentData),
     active |-> Len(in.tasks), blocked |-> Len(in.cronData.errors)]

FreshStats(in) == [cronJobsTotal |-> in.cronData.total]

KnownKeys ==
    DOMAIN FreshByUpdate(inp, clock) \cup DOMAIN FreshByExtra(inp) \cup {"health", "stats"}

\* final holds every key of fresh with its value
HoldsAll(final, fresh) == \A k \in DOMAIN fresh : Has(final, k) /\ final[k] = fresh[k]

\* final holds every key of prior outside known with its value
KeepsRest(final, prior, known) ==
    \A k \in (DOMAIN prior) \ known : Has(final, k) /\ final[k] = prior[k]

\* a live run from a snapshot that is an object, or missing or unparseable,
\* has completed with every write succeeding
LiveRunWroteSnapshot ==
    /\ pc = "done"
    /\ ~dryRun
    /\ AllWritesOk
    /\ start.state.kind \in {"object", "missing", "corrupt"}

\* the keys outside the computed ones are kept, and the computed keys other
\* than health and stats hold exactly the fresh values
MergeOutsideHealthAndStats ==
    /\ files.state.kind = "object"
    /\ KeepsRest(files.state.obj, parsedState(start.state).obj, KnownKeys)
    /\ HoldsAll(files.state.obj, FreshByUpdate(inp, clock))
    /\ HoldsAll(files.state.obj, FreshByExtra(inp))

C10_WriteFailureAbortsNothing ==
    (~dryRun /\ ~AllWritesOk) =>
       /\ pc # "crashed"
       /\ pc = "done" => {writes[i].file : i \in 1..Len(writes)} = {"activity", "state", "html"}

----------------------------------------------------------------------------
(* Properties of a run with failing providers (SpecDegraded) *)

\* the fields of the adapters' outputs, by the provider each is read from
FieldOf ==
    [cron |-> "cronData", things |-> "tasks", agents |-> "agentData", oura |-> "ouraData",
     lifeOS |-> "lifeOSData", counts |-> "taskCounts", awaiting |-> "awaitingResponses",
     system |-> "systemStatus"]

----------------------------------------------------------------------------
(* Properties of the parsing functions (SpecParse) *)

\* p is 100 * a / b rounded to the nearest integer, halves upwards (b > 0)
IsNearestPct(p, a, b) == 2 * p * b <= 200 * a + b /\ 200 * a + b < 2 * (p + 1) * b

\* p is the progress of the rocks of a list whose number is in members
IsProgressOf(p, rocks, members) ==
    IF RocksIn(rocks, members) = {} THEN p = 0
    ELSE IsNearestPct(p, Cardinality(DoneIn(rocks, members)), Cardinality(RocksIn(rocks, members)))

\* C13: the progress of each goal category and the overall rocks progress are
\* round(100 * done / members) of the rocks of the group, and 0, not NaN, for
\* a group without rocks
C13_GoalProgressRounded ==
    (pc = "ret" /\ arg.fn = "lifeProgress") =>
       /\ \A g \in DOMAIN GoalRocks : IsProgressOf(res.goals[g], arg.x, GoalRocks[g])
       /\ IsProgressOf(res.rockProgress, arg.x, 1..9)
       /\ \A g \in DOMAIN GoalRocks : res.goals[g] \in 0..100

\* the progress has been computed of a list with two of three freedom rocks
\* done (67 percent), an income rock among them, and no body rock
C13_Witness ==
    /\ pc = "ret"
    /\ arg.fn = "lifeProgress"
    /\ Cardinality(RocksIn(arg.x, GoalRocks.freedom)) = 3
    /\ res.goals.freedom = 67
    /\ res.goals.income = 100
    /\ RocksIn(arg.x, GoalRocks.body) = {}
    /\ res.goals.body = 0

----------------------------------------------------------------------------
(* Properties of Spec: the order and the number of the writes of a run      *)

\* the positions in writes of the completed writes of file f
WrittenAt(f) == {i \in 1..Len(writes) : writes[i].file = f /\ writes[i].ok}

\* C18: a live run writes the document, then the snapshot, then the activity
\* log: no entry is written before the document and the snapshot are.
C18_LogAfterDocumentAndSnapshot ==
    ~dryRun =>
        \A k \in WrittenAt("activity") :
            /\ \E i \in WrittenAt("html") : i < k
            /\ \E j \in WrittenAt("state") : j < k
            /\ \A i \in WrittenAt("html"), j \in WrittenAt("state") : i < j

\* C19: a live run writes the snapshot once and the activity log once, so the
\* snapshot on disk never holds this run's values under some known keys and
\* an earlier run's under others.
C19_SnapshotWrittenOnce ==
    /\ (pc = "done" /\ ~dryRun) =>
           (Cardinality(WrittenAt("state")) = 1 /\ Cardinality(WrittenAt("activity")) = 1)
    /\ (~dryRun /\ WrittenAt("state") # {} /\ files.state.kind = "object") =>
           (HoldsAll(files.state.obj, FreshByUpdate(inp, clock))
                /\ HoldsAll(files.state.obj, FreshByExtra(inp)))

----------------------------------------------------------------------------
(* Properties of SpecPatch: the system-status block                         *)

FirstAt(d, a) == Least({i \in 1..Len(d) : d[i] = a})

\* the document holds, at its first system-status opening tag, a whole block
\* as buildSystemStatusSection renders it for status
HoldsBlock(d, status) ==
    /\ includes(d, SYSCARD)
    /\ FirstAt(d, SYSCARD) + Len(buildSystemStatusSection(status)) - 1 <= Len(d)
    /\ SubSeq(d, FirstAt(d, SYSCARD),
              FirstAt(d, SYSCARD) + Len(buildSystemStatusSection(status)) - 1)
           = buildSystemStatusSection(status)

\* d with that block replaced by the block rendered for fresh, nothing else touched
WithBlock(d, status, fresh) ==
    SubSeq(d, 1, FirstAt(d, SYSCARD) - 1)
        \o buildSystemStatusSection(fresh)
        \o SubSeq(d, FirstAt(d, SYSCARD) + Len(buildSystemStatusSection(status)), Len(d))

\* C17: when the document holds a system-status block rendered by an earlier
\* pass, rule 7d replaces exactly that block: the text before its opening tag
\* and the text after its own closing tag stay as they were.
C17_BlockReplacedInPlace ==
    (passes > 0 /\ HoldsBlock(Before7d(prev, CtxNow), inp.systemStatus)) =>
        Rule7d(Before7d(prev, CtxNow), CtxNow)
            = WithBlock(Before7d(prev, CtxNow), inp.systemStatus, inp.systemStatus)

----------------------------------------------------------------------------
(* Properties of SpecPatch: the cron grid                                   *)

HealthAtoms == {"<div class=cron-health error>", "<div class=cron-health ok style=orange>",
                "<div class=cron-health ok>"}

\* the color a health indicator shows: the error class is red, the orange
\* background orange, the plain ok class green
ShownColor(a) ==
    CASE a = "<div class=cron-health error>" -> "red"
      [] a = "<div class=cron-health ok style=orange>" -> "orange"
      [] OTHER -> "green"

IsHealthAtom(a) == a \in HealthAtoms

\* C21: the grid left by a pass shows at most 12 jobs in source order, each
\* with the indicator of its record color: red for error, blue for running,
\* orange for never run, green otherwise.
C21_GridShowsRecordColors ==
    (passes > 0 /\ includes(prev, CRONGRID) /\ includes(prev, LIFEOSVIEW)) =>
        /\ Len(SelectSeq(buf, IsHealthAtom)) = Min(12, Len(inp.cronData.crons))
        /\ \A i \in 1..Len(SelectSeq(buf, IsHealthAtom)) :
              ShownColor(SelectSeq(buf, IsHealthAtom)[i]) = inp.cronData.crons[i].color

----------------------------------------------------------------------------
(* Properties of SpecPatch: the needs-attention block                       *)

\* the items the statement expects: two of the prior list, then three fresh
ExpectedNeeds ==
    SubSeq(NeedsJordan(mem.obj), 1, Min(2, Len(NeedsJordan(mem.obj))))
        \o SubSeq(inp.needsYouItems, 1, Min(3, Len(inp.needsYouItems)))

\* C22: the rendered list is the first two items of the prior needsJordan
\* list followed by the first three fresh items, never more than five, and
\* after a pass that found the block its badge is the number of items shown.
C22_NeedsListAndBadge ==
    (passes > 0 /\ includes(prev, NJCARD) /\ includes(prev, APPROVAL)) =>
        /\ Count(buf, "<div class=need-item>") = Len(ExpectedNeeds)
        /\ Count(buf, "<div class=need-item>") <= 5
        /\ \A k \in 1..Len(ExpectedNeeds) :
              /\ k <= Len(Places(buf, "<h4>"))
              /\ IsAt(buf, Places(buf, "<h4>")[k] + 1,
                      escapeHtml(ExpectedNeeds[k].title) \o <<"</h4>">>)
        /\ Count(buf, NJCARD) = 1
        /\ IsAt(buf, FirstAt(buf, NJCARD),
                <<NJCARD, HEADER, CTITLE, "NEEDS YOU", DIVC, BADGE,
                  ToString(Count(buf, "<div class=need-item>")), SPANC>>)

----------------------------------------------------------------------------
(* Properties of SpecPatch: the active-work block                           *)

\* C28: the active-work fragment is inserted verbatim: each shown task's
\* title in the document is exactly its escaped source text, and nothing of
\* the matched anchor or of the rest of the document is copied into it.
C28_FragmentInsertedVerbatim ==
    (passes > 0 /\ includes(prev, "Active Work") /\ includes(prev, "Coming Up")) =>
        /\ \A k \in 1..Min(4, Len(inp.tasks)) :
              /\ k <= Len(Places(buf, WORKTITLE))
              /\ IsAt(buf, Places(buf, WORKTITLE)[k],
                      <<WORKTITLE>> \o escapeHtml(inp.tasks[k].title) \o <<DIVC, WORKPROJECT>>)
        /\ Count(buf, "Coming Up") = Count(prev, "Coming Up")

----------------------------------------------------------------------------
(* Properties of SpecPatch: the goal progress                               *)

\* the key of lifeOSData.goals behind each goal of the document
GoalKey == [income |-> "income", body |-> "body", love |-> "relationship",
            freedom |-> "freedom", joy |-> "lifeQuality"]

\* the text of the goal's own header: that of the last progress value before
\* the goal's fill bar
OwnText(d, goal) ==
    d[Greatest({i \in 1..FirstAt(d, FILL[goal]) : d[i] = GPV}) + 1]

OwnWidth(d, goal) == d[FirstAt(d, FILL[goal]) + 1]

HasGoals(d) ==
    \A goal \in DOMAIN GoalKey :
        /\ includes(d, FILL[goal])
        /\ \E i \in 1..FirstAt(d, FILL[goal]) : d[i] = GPV

\* C26: after a pass over a document with a header and a fill bar for each
\* of the five goals, each goal's percentage text is its own progress and the
\* width of its own fill bar.
C26_EachGoalShowsItsOwnProgress ==
    (passes > 0 /\ HasGoals(prev)) =>
        \A goal \in DOMAIN GoalKey :
            /\ OwnWidth(buf, goal)
                  = ToString(ProgressOr(inp.lifeOSData.goals, GoalKey[goal],
                                        IF goal = "joy" THEN 60 ELSE 0))
            /\ OwnText(buf, goal) = OwnWidth(buf, goal)

----------------------------------------------------------------------------
(* Properties of SpecParse: the scheduler's report                          *)

Returned(fn) == pc = "ret" /\ arg.fn = fn

\* C14: every retained cron row is red when its status is error, otherwise
\* blue when its status is running, otherwise orange when its last run is
\* '-' or 'never', otherwise green, the branches tried in that order.
C14_ColorByPriority ==
    Returned("getCronDetailedStatus") =>
        \A i \in 1..Len(res.crons) :
            /\ res.crons[i].status = sERROR => res.crons[i].color = "red"
            /\ (res.crons[i].status # sERROR /\ res.crons[i].status = sRUNNING)
                   => res.crons[i].color = "blue"
            /\ (res.crons[i].status \notin {sERROR, sRUNNING}
                    /\ res.crons[i].last \in {sDASH, sNEVER})
                   => res.crons[i].color = "orange"
            /\ (res.crons[i].status \notin {sERROR, sRUNNING}
                    /\ res.crons[i].last \notin {sDASH, sNEVER})
                   => res.crons[i].color = "green"

\* a report whose never-run rows come out red (error), blue (running) and orange
C14_Witness ==
    /\ Returned("getCronDetailedStatus")
    /\ arg.x = <<ReportHeader, LineError, LineRunning, LineIdleNever>>
    /\ [i \in 1..3 |-> res.crons[i].color] = <<"red", "blue", "orange">>
    /\ \A i \in 1..3 : res.crons[i].last \in {sDASH, sNEVER}

RetainedLines(output) ==
    SelectSeq(SubSeq(output, 2, Len(output)), LAMBDA l : l \notin {LineNoName, LineNoId})

\* C15: of three rows, one in error, one never run whose status is neither
\* error nor ok (idle, or blank) and one ok, one is healthy out of three and
\* the error list is exactly the row in error; in general total counts the
\* retained rows and the error list is the rows in error in report order.
C15_OneHealthyOfThree ==
    Returned("getCronDetailedStatus") =>
        /\ (/\ Len(arg.x) = 4
            /\ arg.x[2] \in {LineError, LineErrorRan}
            /\ arg.x[3] \in {LineIdleNever, LineBlankNever}
            /\ arg.x[4] = LineOk)
               => (res.healthy = 1 /\ res.total = 3 /\ res.errors = <<res.crons[1]>>)
        /\ res.total = Len(RetainedLines(arg.x))
        /\ res.errors = SelectSeq(res.crons, LAMBDA c : c.status = sERROR)

\* C20: every record of either parser has an id, a name and a status among
\* ok, idle, error, running and unknown.
C20_StatusAmongFive ==
    (Returned("getCronDetailedStatus") \/ Returned("getCronStatus")) =>
        \A i \in 1..Len(res.crons) :
            /\ res.crons[i].id # <<>>
            /\ res.crons[i].name # <<>>
            /\ res.crons[i].status \in {sOK, sIDLE, sERROR, sRUNNING, sUNKNOWN}

----------------------------------------------------------------------------
(* Properties of SpecParse: parseAge                                        *)

AllDigits(t) == t # <<>> /\ \A i \in 1..Len(t) : IsDigit(t[i])

\* s is a number followed by exactly tail
IsNumberThen(s, tail) ==
    /\ Len(s) > Len(tail)
    /\ SubSeq(s, Len(s) - Len(tail) + 1, Len(s)) = tail
    /\ AllDigits(SubSeq(s, 1, Len(s) - Len(tail)))

NumberOf(s, tail) == parseInt(SubSeq(s, 1, Len(s) - Len(tail)))

\* C16: parseAge gives 0 for 'just now', N for '<N>m', 60 N for '<N>h ago',
\* 1440 N for '<N>d ago', and 9999 for every other input.
C16_AgeOfTheFourForms ==
    Returned("parseAge") =>
        res = IF arg.x.kind # "string" THEN 9999
              ELSE IF arg.x.s = sJUSTNOW THEN 0
              ELSE IF IsNumberThen(arg.x.s, <<"m">>) THEN NumberOf(arg.x.s, <<"m">>)
              ELSE IF IsNumberThen(arg.x.s, <<"h", " ", "a", "g", "o">>)
                   THEN 60 * NumberOf(arg.x.s, <<"h", " ", "a", "g", "o">>)
              ELSE IF IsNumberThen(arg.x.s, <<"d", " ", "a", "g", "o">>)
                   THEN 1440 * NumberOf(arg.x.s, <<"d", " ", "a", "g", "o">>)
              ELSE 9999

----------------------------------------------------------------------------
(* Properties of SpecParse: the sections of life-vto.md                     *)

TableRows == {LineRock, LineMetric}
HeadingsUpToThree == {LineH1, LineH2, LineH3, LineRocks, LineScorecard}

\* the line of the first heading, 0 when there is none
HeadingAt(lines, heading) == Least({h \in 1..Len(lines) : lines[h] = heading})

\* the lines from the heading to the next heading of the same or a higher level
SectionOf(lines, heading) ==
    IF HeadingAt(lines, heading) = 0 THEN <<>>
    ELSE SubSeq(lines, HeadingAt(lines, heading) + 1,
                Least({Len(lines) + 1}
                        \cup {k \in (HeadingAt(lines, heading) + 1)..Len(lines) :
                                 lines[k] \in HeadingsUpToThree}) - 1)

\* C23: rocks and scorecard records come only from the table rows between
\* the section's heading and the next heading of the same or a higher level:
\* a following '##' or '#' heading ends the section, a '####' heading does not.
C23_SectionEndsAtNextHeading ==
    Returned("lifeSections") =>
        /\ Len(res.rocks) = Len(SelectSeq(SectionOf(arg.x, LineRocks), LAMBDA l : l = LineRock))
        /\ Len(res.scorecard)
              = Len(SelectSeq(SectionOf(arg.x, LineScorecard), LAMBDA l : l \in TableRows))

----------------------------------------------------------------------------
(* Properties of SpecParse: getAwaitingResponses                            *)

\* the start lines of the Active section: they begin with '- [ ] ['
StartsIn(A) == SelectSeq([i \in 1..Len(A) |-> i], LAMBDA i : A[i][1] = "- [ ] [")

\* the last line among S between the k-th start line and the next one
LastBetween(A, k, S) ==
    Greatest({i \in (StartsIn(A)[k] + 1)..
                    ((IF k < Len(StartsIn(A)) THEN StartsIn(A)[k + 1] ELSE Len(A) + 1) - 1) :
                 A[i] \in S})

WhereLines == {LineWhere1, LineWhere2}
CheckedLines == {LineChecked1, LineChecked2, LineCheckedLong}
PlaceIn(line) == IF line = LineWhere1 THEN <<"p">> ELSE <<"q">>
CheckedOn(line) == IF line = LineChecked2 THEN <<"d4">> ELSE <<"d3">>
StatusIn(line) ==
    IF line = LineChecked1 THEN <<"s">>
    ELSE IF line = LineChecked2 THEN <<"t">> ELSE Chars("s", 60)

\* C24: one item per start line of the Active section, in order; its
\* whereToCheck, lastChecked and status are those of the last such line
\* between its start line and the next one; titles have at most 80
\* characters and statuses at most 60.
C24_OneItemPerStartLine ==
    Returned("getAwaitingResponses") =>
        /\ Len(res) = Len(StartsIn(activeLines(arg.x)))
        /\ \A k \in 1..Len(res) :
              /\ res[k].date = activeLines(arg.x)[StartsIn(activeLines(arg.x))[k]][2]
              /\ res[k].channel = activeLines(arg.x)[StartsIn(activeLines(arg.x))[k]][4]
              /\ res[k].title
                    = SubSeq(activeLines(arg.x)[StartsIn(activeLines(arg.x))[k]], 6,
                             Min(85, Len(activeLines(arg.x)[StartsIn(activeLines(arg.x))[k]])))
              /\ Len(res[k].title) <= 80
              /\ Len(res[k].status) <= 60
              /\ res[k].whereToCheck
                    = IF LastBetween(activeLines(arg.x), k, WhereLines) = 0 THEN <<>>
                      ELSE PlaceIn(activeLines(arg.x)[LastBetween(activeLines(arg.x), k, WhereLines)])
              /\ res[k].status
                    = IF LastBetween(activeLines(arg.x), k, CheckedLines) = 0 THEN <<>>
                      ELSE StatusIn(activeLines(arg.x)[LastBetween(activeLines(arg.x), k, CheckedLines)])
              /\ res[k].lastChecked
                    = IF LastBetween(activeLines(arg.x), k, CheckedLines) = 0 THEN <<>>
                      ELSE CheckedOn(activeLines(arg.x)[LastBetween(activeLines(arg.x), k, CheckedLines)])

\* a place before the first start line is dropped, the second of two places
\* and of two checks wins; a title of 81 characters is cut to 80
C24_Witness ==
    /\ Returned("getAwaitingResponses")
    /\ \/ /\ arg.x = <<LineActive, LineWhere1, LineItemA, LineChecked1>>
          /\ res = <<[itemOf(LineItemA) EXCEPT !.lastChecked = <<"d3">>, !.status = <<"s">>]>>
       \/ /\ arg.x = <<LineActive, LineItemLong, LineCheckedLong>>
          /\ Len(res[1].title) = 80
          /\ Len(res[1].status) = 60

----------------------------------------------------------------------------
(* Properties of SpecParse: getOuraBodyStats                                *)

\* the number a field stands for: that of its leading digits, 0 when it is
\* missing or does not start with a digit
ReadAsNumber(v) ==
    IF v.kind = "string" /\ v.s # <<>> /\ IsDigit(v.s[1])
    THEN parseInt(SubSeq(v.s, 1, Greatest({n \in 1..Len(v.s) : AllDigits(SubSeq(v.s, 1, n))})))
    ELSE 0

\* C25: every record getOuraBodyStats returns, the default record of a
\* failed provider included, has a trend among up, down and flat: up when
\* current > previous, down when current < previous, flat otherwise.
C25_TrendOfEveryRecord ==
    Returned("getOuraBodyStats") =>
        /\ res.trend \in {<<"up">>, <<"down">>, <<"flat">>}
        /\ arg.x.kind = "data" =>
              /\ res.current = ReadAsNumber(firstPart(arg.x.vo2))
              /\ res.previous = ReadAsNumber(arg.x.prevVo2)
              /\ res.trend = IF res.current > res.previous THEN <<"up">>
                             ELSE IF res.current < res.previous THEN <<"down">>
                             ELSE <<"flat">>

----------------------------------------------------------------------------
(* Properties of SpecParse: getActiveAgents                                 *)

\* C27: on every return path of getActiveAgents the count is the number of
\* sessions of the returned list whose isActive flag is set, that is, whose
\* age is under 30 minutes.
C27_CountIsActiveSessions ==
    Returned("getActiveAgents") =>
        /\ res.count = Cardinality({i \in 1..Len(res.all) : res.all[i].isActive})
        /\ \A i \in 1..Len(res.all) : res.all[i].isActive <=> res.all[i].ageMinutes < 30

====
